---- MODULE Spec2Model ----
(***************************************************************************)
(* Job board: the listings route (GET /api), the application route         *)
(* (POST and GET /api/apply) and the client-side job context (JobProvider). *)
(*                                                                         *)
(* JavaScript strings are modelled as sequences of one-character strings,  *)
(* so that toLowerCase, trim, includes, join and the regular expressions   *)
(* are computed character by character, as the runtime computes them.      *)
(***************************************************************************)
EXTENDS Integers, Sequences, FiniteSets, TLC

VARIABLES
    trRecord,      \* Transformer: the external record handed to transformRemoteOKJob
    trOut,         \* Transformer: <<>> before the call, <<job>> after it
    gwPc,          \* GET /api: "idle" | "fetching" | "responded"
    gwParams,      \* GET /api: the request's search parameters
    gwUpstream,    \* GET /api: what the external provider gave this request
    gwResponse,    \* GET /api: the response of the last completed request
    vaInput,       \* Validator: the data handed to validateApplication
    vaOut,         \* Validator: <<>> before the call, <<result>> after it
    applications,  \* /api/apply: the in-memory list of stored applications
    apPc,          \* POST /api/apply: per handler "idle" | "parsing" | "delay" | "done"
    apBody,        \* POST /api/apply: per handler the request body
    apLocal,       \* POST /api/apply: per handler the local `application`
    apResp,        \* POST /api/apply: per handler the response
    apClock,       \* /api/apply: the value of Date.now()
    apAdmin,       \* GET /api/apply: the last response
    clPc,          \* JobProvider: "off" | "rendered" | "mounted"
    jobs,          \* JobProvider: the jobs state
    filteredJobs,  \* JobProvider: the filteredJobs state
    filters,       \* JobProvider: the filters state
    filtersRef,    \* JobProvider: "default" when filters is the DEFAULT_FILTERS object
    loading,       \* JobProvider: the loading state
    error,         \* JobProvider: the error state
    debounceTimer, \* JobProvider: the timer of the effect and the loadJobs it calls
    inFlight,      \* fetchJobs: the calls awaiting the response of fetch
    fetchLog,      \* history: the requests fetchJobs issued and how they ended
    edits          \* history: the number of times the filters state was replaced

trVars == <<trRecord, trOut>>
gwVars == <<gwPc, gwParams, gwUpstream, gwResponse>>
vaVars == <<vaInput, vaOut>>
apVars == <<applications, apPc, apBody, apLocal, apResp, apClock, apAdmin>>
clVars == <<clPc, jobs, filteredJobs, filters, filtersRef, loading, error,
            debounceTimer, inFlight, fetchLog, edits>>
vars == <<trVars, gwVars, vaVars, apVars, clVars>>

(***************************************************************************)
(* Bounds of the model.                                                    *)
(***************************************************************************)
\* Longest tag list of an external record handed to the Transformer.
MaxTags == 2
\* Longest array the external listings provider answers with.
MaxUpstream == 3
\* Most search parameters a request to GET /api carries.
MaxParams == 2
\* Most POST /api/apply handlers in progress at once.
MaxHandlers == 2
\* Most applications the store comes to hold.
MaxApplications == 2
\* Most sentences of a generated description.
MaxSentences == 4
\* Most replacements of the filters state of the JobProvider.
MaxEdits == 2
\* Most applications the store holds when GET /api/apply is asked.
MaxStored == 12

(***************************************************************************)
(* JavaScript strings.                                                     *)
(***************************************************************************)
UpperCase == <<"A", "B", "C", "D", "E", "F", "G", "H", "I", "J", "K", "L", "M", "N", "O", "P", "Q", "R", "S", "T", "U", "V", "W", "X", "Y", "Z">>
LowerCase == <<"a", "b", "c", "d", "e", "f", "g", "h", "i", "j", "k", "l", "m", "n", "o", "p", "q", "r", "s", "t", "u", "v", "w", "x", "y", "z">>

\* String.prototype.toLowerCase on one character.
LowerChar(c) ==
    IF \E i \in 1..Len(UpperCase) : UpperCase[i] = c
    THEN LowerCase[CHOOSE i \in 1..Len(UpperCase) : UpperCase[i] = c]
    ELSE c

\* String.prototype.toLowerCase.
ToLowerCase(s) == [i \in 1..Len(s) |-> LowerChar(s[i])]

\* String.prototype.includes.
Includes(s, sub) ==
    \E i \in 1..(Len(s) - Len(sub) + 1) : SubSeq(s, i, i + Len(sub) - 1) = sub

\* Array.prototype.join.
RECURSIVE Join(_, _)
Join(arr, sep) ==
    IF arr = <<>> THEN <<>>
    ELSE IF Len(arr) = 1 THEN arr[1]
    ELSE arr[1] \o sep \o Join(Tail(arr), sep)

\* Array.prototype.filter, order kept.
RECURSIVE SelectIdx(_, _)
SelectIdx(n, keep) ==
    IF n = 0 THEN <<>>
    ELSE IF n \in keep THEN Append(SelectIdx(n - 1, keep), n)
    ELSE SelectIdx(n - 1, keep)

(***************************************************************************)
(* JavaScript values of the external records: a field is undefined, a      *)
(* string, a number or (tags) an array of strings.                         *)
(***************************************************************************)
Undefined == [t |-> "undefined", s |-> <<>>, n |-> 0, a |-> <<>>]
Str(x) == [t |-> "string", s |-> x, n |-> 0, a |-> <<>>]
Num(k) == [t |-> "number", s |-> <<>>, n |-> k, a |-> <<>>]
Arr(xs) == [t |-> "array", s |-> <<>>, n |-> 0, a |-> xs]

\* ToBoolean: undefined, '' and 0 are falsy; an array (even empty) is truthy.
Truthy(v) ==
    CASE v.t = "undefined" -> FALSE
      [] v.t = "string" -> v.s # <<>>
      [] v.t = "number" -> v.n # 0
      [] OTHER -> TRUE

\* v || d
OrElse(v, d) == IF Truthy(v) THEN v ELSE d

(***************************************************************************)
(* Classifier (determineCategory, determineExperienceLevel).               *)
(***************************************************************************)
SoftwareDevelopment == <<"S", "o", "f", "t", "w", "a", "r", "e", " ", "D", "e", "v", "e", "l", "o", "p", "m", "e", "n", "t">>
DataScience == <<"D", "a", "t", "a", " ", "S", "c", "i", "e", "n", "c", "e">>
Design == <<"D", "e", "s", "i", "g", "n">>
Marketing == <<"M", "a", "r", "k", "e", "t", "i", "n", "g">>
ProductManagement == <<"P", "r", "o", "d", "u", "c", "t", " ", "M", "a", "n", "a", "g", "e", "m", "e", "n", "t">>
Sales == <<"S", "a", "l", "e", "s">>
CustomerSupport == <<"C", "u", "s", "t", "o", "m", "e", "r", " ", "S", "u", "p", "p", "o", "r", "t">>
HumanResources == <<"H", "u", "m", "a", "n", " ", "R", "e", "s", "o", "u", "r", "c", "e", "s">>
Finance == <<"F", "i", "n", "a", "n", "c", "e">>
DevOps == <<"D", "e", "v", "O", "p", "s">>
QualityAssurance == <<"Q", "u", "a", "l", "i", "t", "y", " ", "A", "s", "s", "u", "r", "a", "n", "c", "e">>
Security == <<"S", "e", "c", "u", "r", "i", "t", "y">>

EntryLevel == <<"E", "n", "t", "r", "y", "-", "L", "e", "v", "e", "l">>
MidLevel == <<"M", "i", "d", "-", "L", "e", "v", "e", "l">>
Senior == <<"S", "e", "n", "i", "o", "r">>
Lead == <<"L", "e", "a", "d">>

\* searchText.includes(k1) || searchText.includes(k2) || ...
IncludesAny(searchText, keywords) == \E k \in keywords : Includes(searchText, k)

determineCategory_Mutant(tagsOrTitle) ==
    LET searchText ==
            IF tagsOrTitle.t = "array"
            THEN ToLowerCase(Join(tagsOrTitle.a, <<" ">>))
            ELSE ToLowerCase(tagsOrTitle.s)
    IN  IF IncludesAny(searchText, {<<"d", "e", "v">>, <<"e", "n", "g", "i", "n", "e", "e", "r">>})
        THEN SoftwareDevelopment
        ELSE IF searchText = <<>> THEN SoftwareDevelopment
        ELSE searchText

\* determineCategory with the devops group tested first.
determineCategory_DevOpsFirst(tagsOrTitle) ==
    LET searchText ==
            IF tagsOrTitle.t = "array"
            THEN ToLowerCase(Join(tagsOrTitle.a, <<" ">>))
            ELSE ToLowerCase(tagsOrTitle.s)
    IN  IF IncludesAny(searchText, {<<"d", "e", "v", "o", "p", "s">>, <<"s", "r", "e">>, <<"i", "n", "f", "r", "a", "s", "t", "r", "u", "c", "t", "u", "r", "e">>})
        THEN DevOps
        ELSE IF IncludesAny(searchText, {<<"d", "e", "v">>, <<"e", "n", "g", "i", "n", "e", "e", "r">>, <<"p", "r", "o", "g", "r", "a", "m", "m", "e", "r">>,
                <<"f", "r", "o", "n", "t", "e", "n", "d">>, <<"b", "a", "c", "k", "e", "n", "d">>, <<"f", "u", "l", "l", "s", "t", "a", "c", "k">>, <<"f", "u", "l", "l", " ", "s", "t", "a", "c", "k">>})
        THEN SoftwareDevelopment
        ELSE IF IncludesAny(searchText, {<<"d", "a", "t", "a">>, <<"a", "n", "a", "l", "y", "s", "t">>, <<"s", "c", "i", "e", "n", "t", "i", "s", "t">>,
                <<"m", "l">>, <<"m", "a", "c", "h", "i", "n", "e", " ", "l", "e", "a", "r", "n", "i", "n", "g">>})
        THEN DataScience
        ELSE IF IncludesAny(searchText, {<<"d", "e", "s", "i", "g", "n">>, <<"u", "x">>, <<"u", "i">>, <<"g", "r", "a", "p", "h", "i", "c">>})
        THEN Design
        ELSE IF IncludesAny(searchText, {<<"m", "a", "r", "k", "e", "t">>, <<"s", "e", "o">>, <<"g", "r", "o", "w", "t", "h">>})
        THEN Marketing
        ELSE IF IncludesAny(searchText, {<<"p", "r", "o", "d", "u", "c", "t">>, <<"p", "m">>})
        THEN ProductManagement
        ELSE IF IncludesAny(searchText, {<<"s", "a", "l", "e", "s">>, <<"b", "u", "s", "i", "n", "e", "s", "s", " ", "d", "e", "v", "e", "l", "o", "p", "m", "e", "n", "t">>})
        THEN Sales
        ELSE IF IncludesAny(searchText, {<<"s", "u", "p", "p", "o", "r", "t">>, <<"c", "u", "s", "t", "o", "m", "e", "r">>, <<"s", "u", "c", "c", "e", "s", "s">>})
        THEN CustomerSupport
        ELSE IF IncludesAny(searchText, {<<"h", "r">>, <<"h", "u", "m", "a", "n">>, <<"r", "e", "c", "r", "u", "i", "t", "e", "r">>, <<"t", "a", "l", "e", "n", "t">>})
        THEN HumanResources
        ELSE IF IncludesAny(searchText, {<<"f", "i", "n", "a", "n", "c", "e">>, <<"a", "c", "c", "o", "u", "n", "t", "i", "n", "g">>, <<"a", "c", "c", "o", "u", "n", "t", "a", "n", "t">>})
        THEN Finance
        ELSE IF IncludesAny(searchText, {<<"d", "e", "v", "o", "p", "s">>, <<"s", "r", "e">>, <<"i", "n", "f", "r", "a", "s", "t", "r", "u", "c", "t", "u", "r", "e">>})
        THEN DevOps
        ELSE IF IncludesAny(searchText, {<<"q", "a">>, <<"t", "e", "s", "t">>, <<"q", "u", "a", "l", "i", "t", "y">>})
        THEN QualityAssurance
        ELSE IF IncludesAny(searchText, {<<"s", "e", "c", "u", "r", "i", "t", "y">>, <<"c", "y", "b", "e", "r">>})
        THEN Security
        ELSE SoftwareDevelopment

\* determineCategory with the data group tested before the development group.
determineCategory_DataFirst(tagsOrTitle) ==
    LET searchText ==
            IF tagsOrTitle.t = "array"
            THEN ToLowerCase(Join(tagsOrTitle.a, <<" ">>))
            ELSE ToLowerCase(tagsOrTitle.s)
    IN  IF IncludesAny(searchText, {<<"d", "a", "t", "a">>, <<"a", "n", "a", "l", "y", "s", "t">>, <<"s", "c", "i", "e", "n", "t", "i", "s", "t">>,
                <<"m", "l">>, <<"m", "a", "c", "h", "i", "n", "e", " ", "l", "e", "a", "r", "n", "i", "n", "g">>})
        THEN DataScience
        ELSE IF IncludesAny(searchText, {<<"d", "e", "v">>, <<"e", "n", "g", "i", "n", "e", "e", "r">>, <<"p", "r", "o", "g", "r", "a", "m", "m", "e", "r">>,
                <<"f", "r", "o", "n", "t", "e", "n", "d">>, <<"b", "a", "c", "k", "e", "n", "d">>, <<"f", "u", "l", "l", "s", "t", "a", "c", "k">>, <<"f", "u", "l", "l", " ", "s", "t", "a", "c", "k">>})
        THEN SoftwareDevelopment
        ELSE IF IncludesAny(searchText, {<<"d", "e", "s", "i", "g", "n">>, <<"u", "x">>, <<"u", "i">>, <<"g", "r", "a", "p", "h", "i", "c">>})
        THEN Design
        ELSE IF IncludesAny(searchText, {<<"m", "a", "r", "k", "e", "t">>, <<"s", "e", "o">>, <<"g", "r", "o", "w", "t", "h">>})
        THEN Marketing
        ELSE IF IncludesAny(searchText, {<<"p", "r", "o", "d", "u", "c", "t">>, <<"p", "m">>})
        THEN ProductManagement
        ELSE IF IncludesAny(searchText, {<<"s", "a", "l", "e", "s">>, <<"b", "u", "s", "i", "n", "e", "s", "s", " ", "d", "e", "v", "e", "l", "o", "p", "m", "e", "n", "t">>})
        THEN Sales
        ELSE IF IncludesAny(searchText, {<<"s", "u", "p", "p", "o", "r", "t">>, <<"c", "u", "s", "t", "o", "m", "e", "r">>, <<"s", "u", "c", "c", "e", "s", "s">>})
        THEN CustomerSupport
        ELSE IF IncludesAny(searchText, {<<"h", "r">>, <<"h", "u", "m", "a", "n">>, <<"r", "e", "c", "r", "u", "i", "t", "e", "r">>, <<"t", "a", "l", "e", "n", "t">>})
        THEN HumanResources
        ELSE IF IncludesAny(searchText, {<<"f", "i", "n", "a", "n", "c", "e">>, <<"a", "c", "c", "o", "u", "n", "t", "i", "n", "g">>, <<"a", "c", "c", "o", "u", "n", "t", "a", "n", "t">>})
        THEN Finance
        ELSE IF IncludesAny(searchText, {<<"d", "e", "v", "o", "p", "s">>, <<"s", "r", "e">>, <<"i", "n", "f", "r", "a", "s", "t", "r", "u", "c", "t", "u", "r", "e">>})
        THEN DevOps
        ELSE IF IncludesAny(searchText, {<<"q", "a">>, <<"t", "e", "s", "t">>, <<"q", "u", "a", "l", "i", "t", "y">>})
        THEN QualityAssurance
        ELSE IF IncludesAny(searchText, {<<"s", "e", "c", "u", "r", "i", "t", "y">>, <<"c", "y", "b", "e", "r">>})
        THEN Security
        ELSE SoftwareDevelopment

determineCategory(tagsOrTitle) ==
    LET searchText ==
            IF tagsOrTitle.t = "array"
            THEN ToLowerCase(Join(tagsOrTitle.a, <<" ">>))
            ELSE ToLowerCase(tagsOrTitle.s)
    IN  IF IncludesAny(searchText, {<<"d", "e", "v">>, <<"e", "n", "g", "i", "n", "e", "e", "r">>, <<"p", "r", "o", "g", "r", "a", "m", "m", "e", "r">>,
                <<"f", "r", "o", "n", "t", "e", "n", "d">>, <<"b", "a", "c", "k", "e", "n", "d">>, <<"f", "u", "l", "l", "s", "t", "a", "c", "k">>, <<"f", "u", "l", "l", " ", "s", "t", "a", "c", "k">>})
        THEN SoftwareDevelopment
        ELSE IF IncludesAny(searchText, {<<"d", "a", "t", "a">>, <<"a", "n", "a", "l", "y", "s", "t">>, <<"s", "c", "i", "e", "n", "t", "i", "s", "t">>,
                <<"m", "l">>, <<"m", "a", "c", "h", "i", "n", "e", " ", "l", "e", "a", "r", "n", "i", "n", "g">>})
        THEN DataScience
        ELSE IF IncludesAny(searchText, {<<"d", "e", "s", "i", "g", "n">>, <<"u", "x">>, <<"u", "i">>, <<"g", "r", "a", "p", "h", "i", "c">>})
        THEN Design
        ELSE IF IncludesAny(searchText, {<<"m", "a", "r", "k", "e", "t">>, <<"s", "e", "o">>, <<"g", "r", "o", "w", "t", "h">>})
        THEN Marketing
        ELSE IF IncludesAny(searchText, {<<"p", "r", "o", "d", "u", "c", "t">>, <<"p", "m">>})
        THEN ProductManagement
        ELSE IF IncludesAny(searchText, {<<"s", "a", "l", "e", "s">>, <<"b", "u", "s", "i", "n", "e", "s", "s", " ", "d", "e", "v", "e", "l", "o", "p", "m", "e", "n", "t">>})
        THEN Sales
        ELSE IF IncludesAny(searchText, {<<"s", "u", "p", "p", "o", "r", "t">>, <<"c", "u", "s", "t", "o", "m", "e", "r">>, <<"s", "u", "c", "c", "e", "s", "s">>})
        THEN CustomerSupport
        ELSE IF IncludesAny(searchText, {<<"h", "r">>, <<"h", "u", "m", "a", "n">>, <<"r", "e", "c", "r", "u", "i", "t", "e", "r">>, <<"t", "a", "l", "e", "n", "t">>})
        THEN HumanResources
        ELSE IF IncludesAny(searchText, {<<"f", "i", "n", "a", "n", "c", "e">>, <<"a", "c", "c", "o", "u", "n", "t", "i", "n", "g">>, <<"a", "c", "c", "o", "u", "n", "t", "a", "n", "t">>})
        THEN Finance
        ELSE IF IncludesAny(searchText, {<<"d", "e", "v", "o", "p", "s">>, <<"s", "r", "e">>, <<"i", "n", "f", "r", "a", "s", "t", "r", "u", "c", "t", "u", "r", "e">>})
        THEN DevOps
        ELSE IF IncludesAny(searchText, {<<"q", "a">>, <<"t", "e", "s", "t">>, <<"q", "u", "a", "l", "i", "t", "y">>})
        THEN QualityAssurance
        ELSE IF IncludesAny(searchText, {<<"s", "e", "c", "u", "r", "i", "t", "y">>, <<"c", "y", "b", "e", "r">>})
        THEN Security
        ELSE SoftwareDevelopment

\* determineExperienceLevel with the Lead test before the Senior test.
determineExperienceLevel_LeadFirst(title) ==
    LET lowerTitle == ToLowerCase(title)
    IN  IF IncludesAny(lowerTitle, {<<"l", "e", "a", "d">>, <<"s", "t", "a", "f", "f">>, <<"c", "h", "i", "e", "f">>})
        THEN Lead
        ELSE IF IncludesAny(lowerTitle, {<<"s", "e", "n", "i", "o", "r">>, <<"s", "r", ".">>, <<"p", "r", "i", "n", "c", "i", "p", "a", "l">>})
        THEN Senior
        ELSE IF IncludesAny(lowerTitle, {<<"j", "u", "n", "i", "o", "r">>, <<"j", "r", ".">>, <<"e", "n", "t", "r", "y">>, <<"i", "n", "t", "e", "r", "n">>})
        THEN EntryLevel
        ELSE MidLevel

determineExperienceLevel(title) ==
    LET lowerTitle == ToLowerCase(title)
    IN  IF IncludesAny(lowerTitle, {<<"s", "e", "n", "i", "o", "r">>, <<"s", "r", ".">>, <<"p", "r", "i", "n", "c", "i", "p", "a", "l">>})
        THEN Senior
        ELSE IF IncludesAny(lowerTitle, {<<"l", "e", "a", "d">>, <<"s", "t", "a", "f", "f">>, <<"c", "h", "i", "e", "f">>})
        THEN Lead
        ELSE IF IncludesAny(lowerTitle, {<<"j", "u", "n", "i", "o", "r">>, <<"j", "r", ".">>, <<"e", "n", "t", "r", "y">>, <<"i", "n", "t", "e", "r", "n">>})
        THEN EntryLevel
        ELSE MidLevel

(***************************************************************************)
(* Transformer (transformRemoteOKJob).                                     *)
(***************************************************************************)
FullTime == <<"F", "u", "l", "l", "-", "t", "i", "m", "e">>

\* Number.prototype.toString (base 10) of a non-negative integer.
Digits == <<"0", "1", "2", "3", "4", "5", "6", "7", "8", "9">>

RECURSIVE NumToStr(_)
NumToStr(k) ==
    IF k < 10 THEN <<Digits[k + 1]>>
    ELSE Append(NumToStr(k \div 10), Digits[(k % 10) + 1])

\* An element of the external array: null, or an object with the fields the
\* route reads (an absent field is undefined).
Null == [isObject |-> FALSE, id |-> Undefined, slug |-> Undefined,
         position |-> Undefined, company |-> Undefined, tags |-> Undefined,
         description |-> Undefined, salary_min |-> Undefined,
         salary_max |-> Undefined]

ExternalRecord(id, slug, position, company, tags, description) ==
    [isObject |-> TRUE, id |-> id, slug |-> slug, position |-> position,
     company |-> company, tags |-> tags, description |-> description,
     salary_min |-> Undefined, salary_max |-> Undefined]

\* The record with the two salary bounds the provider gave.
WithSalary(remoteJob, salary_min, salary_max) ==
    [remoteJob EXCEPT !.salary_min = salary_min, !.salary_max = salary_max]

WhiteSpace == {" ", "\t", "\n", "\r"}

\* String.prototype.trim.
RECURSIVE TrimStart(_)
TrimStart(s) ==
    IF s # <<>> /\ s[1] \in WhiteSpace THEN TrimStart(Tail(s)) ELSE s

RECURSIVE TrimEnd(_)
TrimEnd(s) ==
    IF s # <<>> /\ s[Len(s)] \in WhiteSpace
    THEN TrimEnd(SubSeq(s, 1, Len(s) - 1))
    ELSE s

Trim(s) == TrimEnd(TrimStart(s))

\* The characters of the class [.!?].
SentenceEnds == {".", "!", "?"}

\* The fragments a description must exceed in trimmed length, and the most
\* fragments kept.
MinFragmentLength == 10
MaxRequirements == 3

\* The index of the first character of s from position i on that is (or, for
\* inRun, is not) a sentence end; 0 when there is none.
RECURSIVE NextIndex(_, _, _)
NextIndex(s, i, inRun) ==
    IF i > Len(s) THEN 0
    ELSE IF (s[i] \in SentenceEnds) # inRun THEN i
    ELSE NextIndex(s, i + 1, inRun)

\* description.split(/[.!?]+/)
RECURSIVE Split(_)
Split(s) ==
    LET i == NextIndex(s, 1, FALSE)
        j == IF i = 0 THEN 0 ELSE NextIndex(s, i, TRUE)
    IN  IF i = 0 THEN <<s>>
        ELSE <<SubSeq(s, 1, i - 1)>>
                \o Split(IF j = 0 THEN <<>> ELSE SubSeq(s, j, Len(s)))

\* sentences.slice(0, 3) left out.
Slice3_Mutant(sentences) == sentences

\* sentences.slice(0, 3)
Slice3(sentences) ==
    SubSeq(sentences, 1,
           IF Len(sentences) < MaxRequirements THEN Len(sentences) ELSE MaxRequirements)

FallbackRequirements ==
    <<<<"E", "x", "p", "e", "r", "i", "e", "n", "c", "e", " ", "i", "n", " ", "r", "e", "l", "e", "v", "a", "n", "t", " ", "f", "i", "e", "l", "d">>, <<"S", "t", "r", "o", "n", "g", " ", "c", "o", "m", "m", "u", "n", "i", "c", "a", "t", "i", "o", "n", " ", "s", "k", "i", "l", "l", "s">>,
      <<"A", "b", "i", "l", "i", "t", "y", " ", "t", "o", " ", "w", "o", "r", "k", " ", "i", "n", " ", "a", " ", "t", "e", "a", "m", " ", "e", "n", "v", "i", "r", "o", "n", "m", "e", "n", "t">>>>

\* extractRequirements keeping fragments of trimmed length 10 too.
extractRequirements_Mutant(description) ==
    LET sentences ==
            IF description # <<>>
            THEN SelectSeq(Split(description),
                           LAMBDA s : Len(Trim(s)) >= MinFragmentLength)
            ELSE <<>>
        requirements == [k \in 1..Len(Slice3(sentences)) |-> Trim(Slice3(sentences)[k])]
    IN  IF Len(requirements) = 0 THEN FallbackRequirements ELSE requirements

extractRequirements(description) ==
    LET sentences ==
            IF description # <<>>
            THEN SelectSeq(Split(description),
                           LAMBDA s : Len(Trim(s)) > MinFragmentLength)
            ELSE <<>>
        requirements == [k \in 1..Len(Slice3(sentences)) |-> Trim(Slice3(sentences)[k])]
    IN  IF Len(requirements) = 0 THEN FallbackRequirements ELSE requirements

USD == <<"U", "S", "D">>

NoSalary == [defined |-> FALSE, min |-> Undefined, max |-> Undefined, currency |-> <<>>]

\* The salary with || in place of &&.
Salary_Mutant(remoteJob) ==
    IF Truthy(remoteJob.salary_min) \/ Truthy(remoteJob.salary_max)
    THEN [defined |-> TRUE, min |-> remoteJob.salary_min,
          max |-> remoteJob.salary_max, currency |-> USD]
    ELSE NoSalary

\* remoteJob.salary_min && remoteJob.salary_max ? {min, max, currency} : undefined
Salary(remoteJob) ==
    IF Truthy(remoteJob.salary_min) /\ Truthy(remoteJob.salary_max)
    THEN [defined |-> TRUE, min |-> remoteJob.salary_min,
          max |-> remoteJob.salary_max, currency |-> USD]
    ELSE NoSalary

\* `now` is the value of Date.now() at the call.
transformRemoteOKJob(remoteJob, now) ==
    [id |-> OrElse(remoteJob.id,
                OrElse(remoteJob.slug, Str(<<"j", "o", "b", "-">> \o NumToStr(now)))),
     title |-> OrElse(remoteJob.position, Str(<<"U", "n", "t", "i", "t", "l", "e", "d", " ", "P", "o", "s", "i", "t", "i", "o", "n">>)).s,
     company |-> OrElse(remoteJob.company, Str(<<"C", "o", "m", "p", "a", "n", "y", " ", "C", "o", "n", "f", "i", "d", "e", "n", "t", "i", "a", "l">>)).s,
     category |-> determineCategory(OrElse(remoteJob.tags, Arr(<<>>))),
     experienceLevel |-> determineExperienceLevel(OrElse(remoteJob.position, Str(<<>>)).s),
     type |-> FullTime,
     salary |-> Salary(remoteJob),
     requirements |->
         extractRequirements(OrElse(remoteJob.description, Str(<<>>)).s),
     description |-> OrElse(remoteJob.description, Str(<<"N", "o", " ", "d", "e", "s", "c", "r", "i", "p", "t", "i", "o", "n", " ", "a", "v", "a", "i", "l", "a", "b", "l", "e">>)).s]

(***************************************************************************)
(* Inputs of the Transformer: tag lists over a small vocabulary, a tag     *)
(* string, or no tags; a position text or none.                            *)
(***************************************************************************)
TagVocabulary ==
    {<<"D", "e", "v">>, <<"d", "a", "t", "a">>, <<"U", "X">>, <<"s", "e", "o">>, <<"P", "M">>, <<"s", "a", "l", "e", "s">>, <<"s", "u", "p", "p", "o", "r", "t">>,
     <<"H", "R">>, <<"f", "i", "n", "a", "n", "c", "e">>, <<"s", "r", "e">>, <<"Q", "A">>, <<"s", "e", "c", "u", "r", "i", "t", "y">>, <<"g", "o", "l", "a", "n", "g">>}

RECURSIVE SeqsUpTo(_, _)
SeqsUpTo(S, n) ==
    IF n = 0 THEN {<<>>}
    ELSE LET shorter == SeqsUpTo(S, n - 1)
         IN  shorter \cup {Append(q, x) : q \in shorter, x \in S}

TagInputs ==
    {Undefined, Str(<<>>), Str(<<"G", "r", "o", "w", "t", "h", " ", "M", "a", "r", "k", "e", "t", "i", "n", "g">>), Str(<<"r", "u", "s", "t">>)}
        \cup {Arr(ts) : ts \in SeqsUpTo(TagVocabulary, MaxTags)}

PositionInputs ==
    {Undefined, Str(<<>>), Str(<<"S", "e", "n", "i", "o", "r", " ", "L", "e", "a", "d", " ", "E", "n", "g", "i", "n", "e", "e", "r">>), Str(<<"S", "T", "A", "F", "F", " ", "D", "e", "s", "i", "g", "n", "e", "r">>),
     Str(<<"J", "r", ".", " ", "A", "n", "a", "l", "y", "s", "t">>), Str(<<"S", "r", ".", " ", "I", "n", "t", "e", "r", "n", " ", "C", "o", "o", "r", "d", "i", "n", "a", "t", "o", "r">>), Str(<<"A", "c", "c", "o", "u", "n", "t", "a", "n", "t">>),
     Str(<<"C", "h", "i", "e", "f", " ", "o", "f", " ", "S", "t", "a", "f", "f">>)}

\* Values of Date.now() (milliseconds).
Clock == {1700, 1701}

\* Descriptions: up to MaxSentences sentences, each a fragment (short, or
\* long and padded) and its end, and texts at the length limit of a fragment.
SentenceInputs ==
    <<<<"A", ".">>, <<"A", "?", "!">>, <<"A">>, <<" ", "V", "a", "l", "i", "d", " ", "s", "e", "n", "t", "e", "n", "c", "e", " ", "h", "e", "r", "e", " ", ".">>, <<" ", "V", "a", "l", "i", "d", " ", "s", "e", "n", "t", "e", "n", "c", "e", " ", "h", "e", "r", "e", " ", "?", "!">>,
      <<" ", "V", "a", "l", "i", "d", " ", "s", "e", "n", "t", "e", "n", "c", "e", " ", "h", "e", "r", "e", " ">>>>

RECURSIVE Concat(_)
Concat(ss) == IF ss = <<>> THEN <<>> ELSE Head(ss) \o Concat(Tail(ss))

DescriptionInputs ==
    {Undefined, Str(<<"0", "1", "2", "3", "4", "5", "6", "7", "8", "9", ".">>), Str(<<" ", "0", "1", "2", "3", "4", "5", "6", "7", "8", "9", "a", " ", ".">>), Str(<<".", ".", ".">>),
     Str(<<" ", " ", " ">>)}
        \cup {Str(Concat([k \in 1..Len(is) |-> SentenceInputs[is[k]]])) :
                is \in SeqsUpTo(1..Len(SentenceInputs), MaxSentences)}

SalaryInputs == {Undefined, Num(0), Num(50000), Num(90000)}

TransformerInputs ==
    {ExternalRecord(id, Undefined, position, Undefined, tags, Undefined) :
        id \in {Undefined, Num(7)}, position \in PositionInputs, tags \in TagInputs}

DescribedInputs ==
    {ExternalRecord(Num(7), Undefined, Undefined, Undefined, Undefined, description) :
        description \in DescriptionInputs}

SalariedInputs ==
    {WithSalary(ExternalRecord(Num(7), Undefined, Undefined, Undefined, Undefined,
                               Undefined), salary_min, salary_max) :
        salary_min \in SalaryInputs, salary_max \in SalaryInputs}

\* Tags around the devops group: its three keywords, a word containing
\* 'sre', keywords of an earlier and of a later group, and none.
DevOpsTags ==
    {<<"D", "e", "v", "O", "p", "s">>, <<"S", "R", "E">>, <<"I", "n", "f", "r", "a", "s", "t", "r", "u", "c", "t", "u", "r", "e">>, <<"p", "r", "e", "s", "s", "u", "r", "e">>, <<"f", "i", "n", "a", "n", "c", "e">>,
     <<"s", "e", "c", "u", "r", "i", "t", "y">>, <<"g", "o", "l", "a", "n", "g">>}

DevOpsInputs ==
    {ExternalRecord(Num(7), Undefined, Undefined, Undefined, tags, Undefined) :
        tags \in {Str(<<"D", "e", "v", "O", "p", "s">>), Str(<<"S", "i", "t", "e", " ", "r", "e", "l", "i", "a", "b", "i", "l", "i", "t", "y", " ", "(", "S", "R", "E", ")">>)}
                    \cup {Arr(ts) : ts \in SeqsUpTo(DevOpsTags, MaxTags)}}

TrInit ==
    /\ \/ trRecord \in TransformerInputs
       \/ trRecord \in DescribedInputs
       \/ trRecord \in SalariedInputs
       \/ trRecord \in DevOpsInputs
    /\ trOut = <<>>

\* One call of transformRemoteOKJob on the record.
Transform ==
    /\ trOut = <<>>
    /\ \E now \in Clock : trOut' = <<transformRemoteOKJob(trRecord, now)>>
    /\ UNCHANGED trRecord
    /\ UNCHANGED <<gwVars, vaVars, apVars, clVars>>

(***************************************************************************)
(* Fetch Gateway: GET /api.                                                *)
(***************************************************************************)
\* The search parameters GET /api reads; searchParams.get gives null (here
\* Undefined) for a parameter the URL does not carry.
ParamNames == {"q", "query", "experience", "experienceLevel", "category", "jobType"}

\* Parameters fetchJobs or a caller sends that the filter chain does not use
\* (remote is read, into the query object of the response only).
OtherNames == {"l", "remote", "page"}

ParamValues(name) ==
    CASE name = "q" -> {Str(<<" ">>), Str(<<"A", "C", "M", "E">>), Str(<<"d", "e", "s", "i", "g", "n">>)}
      [] name = "query" -> {Str(<<"L", "e", "a", "d">>)}
      [] name = "experience" -> {Str(<<"L", "e", "a", "d">>)}
      [] name = "experienceLevel" -> {Str(<<"A", "l", "l", " ", "L", "e", "v", "e", "l", "s">>), Str(<<"M", "i", "d", "-", "L", "e", "v", "e", "l">>)}
      [] name = "category" -> {Str(<<>>), Str(<<"A", "l", "l", " ", "C", "a", "t", "e", "g", "o", "r", "i", "e", "s">>), Str(<<"D", "e", "s", "i", "g", "n">>)}
      [] name = "jobType" -> {Str(<<"A", "l", "l", " ", "T", "y", "p", "e", "s">>), Str(<<"C", "o", "n", "t", "r", "a", "c", "t">>)}

\* Requests carrying at most MaxParams search parameters.
RequestsWith(present) ==
    {[n \in ParamNames \cup OtherNames |-> IF n \in present THEN f[n] ELSE Undefined] :
        f \in {g \in [present -> UNION {ParamValues(n) : n \in present}] :
                \A n \in present : g[n] \in ParamValues(n)}}

Requests ==
    UNION {RequestsWith(present) :
            present \in {P \in SUBSET ParamNames : Cardinality(P) <= MaxParams}}

\* The values of l, remote and page a request carries besides.
OtherValues ==
    { [l |-> Str(<<"L", "a", "g", "o", "s">>), remote |-> Undefined, page |-> Undefined],
      [l |-> Undefined, remote |-> Str(<<"t", "r", "u", "e">>), page |-> Undefined],
      [l |-> Str(<<"r", "e", "m", "o", "t", "e">>), remote |-> Str(<<"t", "r", "u", "e">>), page |-> Str(<<"2">>)] }

\* Requests of at most one parameter of the filter chain, with those.
RequestsWithOthers ==
    {[n \in ParamNames \cup OtherNames |-> IF n \in OtherNames THEN o[n] ELSE r[n]] :
        r \in UNION {RequestsWith(present) :
                        present \in {P \in SUBSET ParamNames : Cardinality(P) <= 1}},
        o \in OtherValues}

\* The elements the external provider's array is made of.
MetadataObj ==
    ExternalRecord(Undefined, Undefined, Undefined, Undefined, Undefined, Undefined)
JobFigma ==
    ExternalRecord(Num(101), Undefined, Str(<<"D", "e", "s", "i", "g", "n", "e", "r">>), Str(<<"A", "c", "m", "e">>),
                   Arr(<<<<"U", "X">>>>), Str(<<"F", "i", "g", "m", "a">>))
JobBackend ==
    ExternalRecord(Str(<<"b", "2">>), Undefined, Str(<<"L", "e", "a", "d", " ", "B", "a", "c", "k", "e", "n", "d", " ", "E", "n", "g", "i", "n", "e", "e", "r">>),
                   Undefined, Arr(<<<<"g", "o", "l", "a", "n", "g">>, <<"b", "a", "c", "k", "e", "n", "d">>>>), Undefined)
JobIdZero ==
    ExternalRecord(Num(0), Str(<<"z", "e", "r", "o">>), Str(<<"I", "n", "t", "e", "r", "n">>), Str(<<"A", "c", "m", "e">>),
                   Str(<<"s", "a", "l", "e", "s">>), Undefined)

UpstreamElements == {Null, MetadataObj, JobFigma, JobBackend, JobIdZero}

\* What the call to the external provider gives: a network error, or a
\* response with a status and a body (a JSON array, other JSON, or not JSON).
UpstreamStatuses == {200, 429, 503}

UpstreamOutcomes ==
    {[kind |-> "networkError", status |-> 0, json |-> "invalid", body |-> <<>>]}
    \cup {[kind |-> "response", status |-> st, json |-> j, body |-> <<>>] :
            st \in UpstreamStatuses, j \in {"invalid", "object"}}
    \cup {[kind |-> "response", status |-> st, json |-> "array", body |-> <<>>] :
            st \in UpstreamStatuses}
    \cup {[kind |-> "response", status |-> 200, json |-> "array", body |-> b] :
            b \in SeqsUpTo(UpstreamElements, MaxUpstream)}

\* Response.ok
ResponseOk(outcome) == outcome.status >= 200 /\ outcome.status <= 299

Slice1_Mutant(result) == result

\* result.slice(1)
Slice1(result) == IF Len(result) <= 1 THEN <<>> ELSE SubSeq(result, 2, Len(result))

\* .filter(job => job && job.id)
ValidEntries(jobData) ==
    SelectSeq(jobData, LAMBDA job : job.isObject /\ Truthy(job.id))

\* The calls of transformRemoteOKJob that evaluate Date.now(): those whose
\* record has neither id nor slug (|| evaluates its right operand only then).
ReadsClock(remoteJob) == ~Truthy(remoteJob.id) /\ ~Truthy(remoteJob.slug)

\* The values Date.now() may give at each of those calls.
ClockReads(entries) ==
    [{i \in 1..Len(entries) : ReadsClock(entries[i])} -> Clock]

\* transformRemoteOKJob tabulated over the provider's elements (computed once
\* per element and clock value; 0 stands for a clock that is not read).
TransformedElement ==
    [e \in UpstreamElements, now \in Clock \cup {0} |-> transformRemoteOKJob(e, now)]

\* .map(job => transformRemoteOKJob(job)); nows[i] is Date.now() at call i.
TransformAll(entries, nows) ==
    [i \in 1..Len(entries) |->
        TransformedElement[entries[i], IF i \in DOMAIN nows THEN nows[i] ELSE 0]]

\* The query filter's predicate.
MatchesQuery(job, searchQuery) ==
    \/ Includes(ToLowerCase(job.title), searchQuery)
    \/ Includes(ToLowerCase(job.company), searchQuery)
    \/ Includes(ToLowerCase(job.description), searchQuery)
    \/ Includes(ToLowerCase(job.category), searchQuery)

FilterByQuery(jobList, query) ==
    IF Truthy(query) /\ Trim(query.s) # <<>>
    THEN SelectSeq(jobList, LAMBDA job : MatchesQuery(job, ToLowerCase(query.s)))
    ELSE jobList

FilterByExperienceLevel(jobList, experienceLevel) ==
    IF Truthy(experienceLevel) /\ experienceLevel.s # <<"A", "l", "l", " ", "L", "e", "v", "e", "l", "s">>
            /\ experienceLevel.s # <<>>
    THEN SelectSeq(jobList, LAMBDA job : job.experienceLevel = experienceLevel.s)
    ELSE jobList

FilterByCategory_Mutant(jobList, category) ==
    IF Truthy(category)
    THEN SelectSeq(jobList, LAMBDA job : job.category = category.s)
    ELSE jobList

FilterByCategory(jobList, category) ==
    IF Truthy(category) /\ category.s # <<"A", "l", "l", " ", "C", "a", "t", "e", "g", "o", "r", "i", "e", "s">> /\ category.s # <<>>
    THEN SelectSeq(jobList, LAMBDA job : job.category = category.s)
    ELSE jobList

FilterByJobType(jobList, jobType) ==
    IF Truthy(jobType) /\ jobType.s # <<"A", "l", "l", " ", "T", "y", "p", "e", "s">> /\ jobType.s # <<>>
    THEN SelectSeq(jobList, LAMBDA job : job.type = jobType.s)
    ELSE jobList

\* The filter chain over the transformed records: the data list of the
\* response once the provider has answered with JSON `result`.
ListJobs(query, experienceLevel, category, jobType, result, isArray, nows) ==
    LET jobData == IF isArray THEN Slice1(result) ELSE <<>>
        jobList == TransformAll(ValidEntries(jobData), nows)
    IN  FilterByJobType(
            FilterByCategory(
                FilterByExperienceLevel(FilterByQuery(jobList, query), experienceLevel),
                category),
            jobType)

\* searchParams.get('q') || searchParams.get('query') || ''
QueryOf(params) == OrElse(params["q"], OrElse(params["query"], Str(<<>>)))

\* searchParams.get('experience') || searchParams.get('experienceLevel')
ExperienceLevelOf(params) == OrElse(params["experience"], params["experienceLevel"])

ErrorResponse(message) ==
    [httpStatus |-> 500, data |-> <<>>, status |-> 500, message |-> message,
     totalResults |-> -1]

\* The request without l, remote and page.
WithoutOthers(params) ==
    [n \in DOMAIN params |-> IF n \in OtherNames THEN Undefined ELSE params[n]]

\* A route that pages: pages after the first are empty.
GETResponse_Paged(params, outcome, nows) ==
    IF outcome.kind = "networkError"
    THEN ErrorResponse(<<"f", "e", "t", "c", "h", " ", "f", "a", "i", "l", "e", "d">>)
    ELSE IF ~ResponseOk(outcome)
    THEN ErrorResponse(<<"R", "e", "m", "o", "t", "e", "O", "K", " ", "A", "P", "I", " ", "e", "r", "r", "o", "r", ":", " ">> \o NumToStr(outcome.status))
    ELSE IF outcome.json = "invalid"
    THEN ErrorResponse(<<"U", "n", "e", "x", "p", "e", "c", "t", "e", "d", " ", "t", "o", "k", "e", "n", " ", "<", " ", "i", "n", " ", "J", "S", "O", "N", " ", "a", "t", " ", "p", "o", "s", "i", "t", "i", "o", "n", " ", "0">>)
    ELSE LET jobList == IF Truthy(params["page"]) /\ params["page"] # Str(<<"1">>)
                        THEN <<>>
                        ELSE ListJobs(QueryOf(params), ExperienceLevelOf(params),
                                      params["category"], params["jobType"],
                                      outcome.body, outcome.json = "array", nows)
         IN  [httpStatus |-> 200, data |-> jobList, status |-> 200,
              message |-> <<"J", "o", "b", "s", " ", "f", "e", "t", "c", "h", "e", "d", " ", "s", "u", "c", "c", "e", "s", "s", "f", "u", "l", "l", "y", " ", "f", "r", "o", "m", " ", "R", "e", "m", "o", "t", "e", "O", "K">>,
              totalResults |-> Len(jobList)]

GETResponse_Mutant(params, outcome, nows) ==
    IF outcome.kind = "networkError"
    THEN ErrorResponse(<<"f", "e", "t", "c", "h", " ", "f", "a", "i", "l", "e", "d">>)
    ELSE IF outcome.json = "invalid"
    THEN ErrorResponse(<<"U", "n", "e", "x", "p", "e", "c", "t", "e", "d", " ", "t", "o", "k", "e", "n", " ", "<", " ", "i", "n", " ", "J", "S", "O", "N", " ", "a", "t", " ", "p", "o", "s", "i", "t", "i", "o", "n", " ", "0">>)
    ELSE LET jobList == ListJobs(QueryOf(params), ExperienceLevelOf(params),
                        params["category"], params["jobType"],
                        outcome.body, outcome.json = "array", nows)
         IN  [httpStatus |-> 200, data |-> jobList, status |-> 200,
              message |-> <<"J", "o", "b", "s", " ", "f", "e", "t", "c", "h", "e", "d", " ", "s", "u", "c", "c", "e", "s", "s", "f", "u", "l", "l", "y", " ", "f", "r", "o", "m", " ", "R", "e", "m", "o", "t", "e", "O", "K">>,
              totalResults |-> Len(jobList)]

\* The response of GET /api for a request and what the provider gave:
\* the try block, or the catch block when fetch, the status check or
\* response.json() throws. totalResults is -1 where the body carries none.
GETResponse(params, outcome, nows) ==
    IF outcome.kind = "networkError"
    THEN ErrorResponse(<<"f", "e", "t", "c", "h", " ", "f", "a", "i", "l", "e", "d">>)
    ELSE IF ~ResponseOk(outcome)
    THEN ErrorResponse(<<"R", "e", "m", "o", "t", "e", "O", "K", " ", "A", "P", "I", " ", "e", "r", "r", "o", "r", ":", " ">> \o NumToStr(outcome.status))
    ELSE IF outcome.json = "invalid"
    THEN ErrorResponse(<<"U", "n", "e", "x", "p", "e", "c", "t", "e", "d", " ", "t", "o", "k", "e", "n", " ", "<", " ", "i", "n", " ", "J", "S", "O", "N", " ", "a", "t", " ", "p", "o", "s", "i", "t", "i", "o", "n", " ", "0">>)
    ELSE LET jobList == ListJobs(QueryOf(params), ExperienceLevelOf(params),
                        params["category"], params["jobType"],
                        outcome.body, outcome.json = "array", nows)
         IN  [httpStatus |-> 200, data |-> jobList, status |-> 200,
              message |-> <<"J", "o", "b", "s", " ", "f", "e", "t", "c", "h", "e", "d", " ", "s", "u", "c", "c", "e", "s", "s", "f", "u", "l", "l", "y", " ", "f", "r", "o", "m", " ", "R", "e", "m", "o", "t", "e", "O", "K">>,
              totalResults |-> Len(jobList)]

NoResponse ==
    [httpStatus |-> 0, data |-> <<>>, status |-> 0, message |-> <<>>, totalResults |-> -1]
NoOutcome == [kind |-> "none", status |-> 0, json |-> "invalid", body |-> <<>>]
NoParams == [n \in ParamNames \cup OtherNames |-> Undefined]

GwInit ==
    /\ gwPc = "idle"
    /\ gwParams = NoParams
    /\ gwUpstream = NoOutcome
    /\ gwResponse = NoResponse

\* A request arrives: the handler reads the parameters and awaits the provider.
GETStart ==
    /\ gwPc = "idle"
    /\ \E p \in Requests \cup RequestsWithOthers : gwParams' = p
    /\ gwPc' = "fetching"
    /\ UNCHANGED <<gwUpstream, gwResponse>>
    /\ UNCHANGED <<trVars, vaVars, apVars, clVars>>

\* The provider's call settles and the handler runs to its response.
GETComplete ==
    /\ gwPc = "fetching"
    /\ \E outcome \in UpstreamOutcomes :
        \E nows \in ClockReads(ValidEntries(Slice1(outcome.body))) :
            /\ gwUpstream' = outcome
            /\ gwResponse' = GETResponse(gwParams, outcome, nows)
    /\ gwPc' = "responded"
    /\ UNCHANGED gwParams
    /\ UNCHANGED <<trVars, vaVars, apVars, clVars>>

\* The response is delivered; the route is ready for the next request.
GETReturn ==
    /\ gwPc = "responded"
    /\ gwPc' = "idle"
    /\ gwParams' = NoParams
    /\ gwUpstream' = NoOutcome
    /\ gwResponse' = NoResponse
    /\ UNCHANGED <<trVars, vaVars, apVars, clVars>>

(***************************************************************************)
(* Validator (isValidEmail, isValidPhone, validateApplication).            *)
(***************************************************************************)
\* typeof
TypeOf(v) == IF v.t = "array" THEN "object" ELSE v.t

\* ToString, as RegExp.prototype.test applies it to its argument.
ToStringJS(v) ==
    CASE v.t = "string" -> v.s
      [] v.t = "number" -> NumToStr(v.n)
      [] v.t = "array" -> Join(v.a, <<",">>)
      [] OTHER -> <<"u", "n", "d", "e", "f", "i", "n", "e", "d">>

\* /^[^\s@]+@[^\s@]+\.[^\s@]+$/.test(text)
EmailRegexTest(text) ==
    \E at \in 1..Len(text), dot \in 1..Len(text) :
        /\ text[at] = "@"
        /\ at > 1
        /\ text[dot] = "."
        /\ dot > at + 1
        /\ dot < Len(text)
        /\ \A i \in 1..Len(text) :
            /\ text[i] \notin WhiteSpace
            /\ i # at => text[i] # "@"

isValidEmail(email) == EmailRegexTest(ToStringJS(email))

DigitChars == {Digits[i] : i \in 1..Len(Digits)}

\* /^[\d\s\-\+\(\)]+$/.test(text)
PhoneRegexTest(text) ==
    /\ text # <<>>
    /\ \A i \in 1..Len(text) :
        text[i] \in DigitChars \cup WhiteSpace \cup {"-", "+", "(", ")"}

\* text.replace(/\D/g, '')
DigitsOnly(text) == SelectSeq(text, LAMBDA c : c \in DigitChars)

\* Shortest accepted phone number, in digits, and shortest accepted name and
\* cover letter, in characters after trimming.
MinPhoneDigits == 10
MinNameLength == 2
MinCoverLetterLength == 50

\* isValidPhone: "valid", "invalid", or "throws" when the regular expression
\* accepts a value that is no string, which has no replace method.
isValidPhone(phone) ==
    IF ~PhoneRegexTest(ToStringJS(phone)) THEN "invalid"
    ELSE IF phone.t # "string" THEN "throws"
    ELSE IF Len(DigitsOnly(phone.s)) >= MinPhoneDigits THEN "valid"
    ELSE "invalid"

\* new URL(text) does not throw: after the surrounding white space, a scheme
\* (a letter, then letters, digits, +, - or .) and a colon; a special scheme
\* (http, https, ftp, ws, wss) needs a non-empty host without white space.
SchemeChars ==
    {LowerCase[i] : i \in 1..Len(LowerCase)} \cup {UpperCase[i] : i \in 1..Len(UpperCase)}
        \cup DigitChars \cup {"+", "-", "."}

LetterChars ==
    {LowerCase[i] : i \in 1..Len(LowerCase)} \cup {UpperCase[i] : i \in 1..Len(UpperCase)}

SpecialSchemes == {<<"h", "t", "t", "p">>, <<"h", "t", "t", "p", "s">>, <<"f", "t", "p">>, <<"w", "s">>, <<"w", "s", "s">>}

RECURSIVE SkipSlashes(_)
SkipSlashes(s) ==
    IF s # <<>> /\ s[1] \in {"/", "\\"} THEN SkipSlashes(Tail(s)) ELSE s

RECURSIVE HostOf(_)
HostOf(s) ==
    IF s = <<>> \/ s[1] \in {"/", "\\", "?", "#"} THEN <<>>
    ELSE <<s[1]>> \o HostOf(Tail(s))

ParsesAsURL(text) ==
    LET input == Trim(text)
    IN  \E colon \in 1..Len(input) :
            /\ input[colon] = ":"
            /\ colon > 1
            /\ input[1] \in LetterChars
            /\ \A i \in 1..(colon - 1) : input[i] \in SchemeChars
            /\ ToLowerCase(SubSeq(input, 1, colon - 1)) \in SpecialSchemes =>
                LET host == HostOf(SkipSlashes(SubSeq(input, colon + 1, Len(input))))
                IN  /\ host # <<>>
                    /\ \A i \in 1..Len(host) : host[i] \notin WhiteSpace \cup {"<", ">", "^", "|"}

\* The conditions of the eight rules, in the order the function tests them.
JobIdInvalid(data) == ~Truthy(data.jobId) \/ TypeOf(data.jobId) # "string"

ApplicantNameInvalid(data) ==
    \/ ~Truthy(data.applicantName)
    \/ TypeOf(data.applicantName) # "string"
    \/ Len(Trim(data.applicantName.s)) < MinNameLength

EmailInvalid(data) == ~Truthy(data.email) \/ ~isValidEmail(data.email)

PhoneThrows(data) == Truthy(data.phone) /\ isValidPhone(data.phone) = "throws"

PhoneInvalid(data) == ~Truthy(data.phone) \/ isValidPhone(data.phone) # "valid"

\* The cover-letter rule rejecting a trimmed length of exactly 50 too.
CoverLetterInvalid_Mutant(data) ==
    \/ ~Truthy(data.coverLetter)
    \/ TypeOf(data.coverLetter) # "string"
    \/ Len(Trim(data.coverLetter.s)) <= MinCoverLetterLength

CoverLetterInvalid(data) ==
    \/ ~Truthy(data.coverLetter)
    \/ TypeOf(data.coverLetter) # "string"
    \/ Len(Trim(data.coverLetter.s)) < MinCoverLetterLength

YearsOfExperienceInvalid(data) ==
    /\ data.yearsOfExperience # Undefined
    /\ TypeOf(data.yearsOfExperience) # "number" \/ data.yearsOfExperience.n < 0

LinkedInInvalid(data) ==
    /\ Truthy(data.linkedIn)
    /\ TypeOf(data.linkedIn) = "string"
    /\ Trim(data.linkedIn.s) # <<>>
    /\ ~Includes(data.linkedIn.s, <<"l", "i", "n", "k", "e", "d", "i", "n", ".", "c", "o", "m">>)

PortfolioInvalid(data) ==
    /\ Truthy(data.portfolio)
    /\ TypeOf(data.portfolio) = "string"
    /\ Trim(data.portfolio.s) # <<>>
    /\ ~ParsesAsURL(data.portfolio.s)

\* errors.push(message) when the rule's condition holds.
PushIf(errors, condition, message) ==
    IF condition THEN Append(errors, message) ELSE errors

validateApplication_Mutant(data) ==
    LET first ==
            IF JobIdInvalid(data) THEN <<"Job ID is required">>
            ELSE IF ApplicantNameInvalid(data)
            THEN <<"Applicant name must be at least 2 characters">>
            ELSE IF EmailInvalid(data) THEN <<"Valid email address is required">>
            ELSE IF PhoneInvalid(data)
            THEN <<"Valid phone number is required (minimum 10 digits)">>
            ELSE IF CoverLetterInvalid(data)
            THEN <<"Cover letter must be at least 50 characters">>
            ELSE IF YearsOfExperienceInvalid(data)
            THEN <<"Years of experience must be a non-negative number">>
            ELSE IF LinkedInInvalid(data)
            THEN <<"LinkedIn URL must be a valid LinkedIn profile URL">>
            ELSE IF PortfolioInvalid(data) THEN <<"Portfolio must be a valid URL">>
            ELSE <<>>
    IN  [threw |-> PhoneThrows(data), valid |-> first = <<>>, errors |-> first]

\* validateApplication: {valid, errors}, or a TypeError thrown by isValidPhone
\* (threw), in which case nothing is returned.
validateApplication(data) ==
    LET e1 == PushIf(<<>>, JobIdInvalid(data), "Job ID is required")
        e2 == PushIf(e1, ApplicantNameInvalid(data),
                     "Applicant name must be at least 2 characters")
        e3 == PushIf(e2, EmailInvalid(data), "Valid email address is required")
        e4 == PushIf(e3, PhoneInvalid(data),
                     "Valid phone number is required (minimum 10 digits)")
        e5 == PushIf(e4, CoverLetterInvalid(data),
                     "Cover letter must be at least 50 characters")
        e6 == PushIf(e5, YearsOfExperienceInvalid(data),
                     "Years of experience must be a non-negative number")
        e7 == PushIf(e6, LinkedInInvalid(data),
                     "LinkedIn URL must be a valid LinkedIn profile URL")
        errors == PushIf(e7, PortfolioInvalid(data), "Portfolio must be a valid URL")
    IN  IF PhoneThrows(data)
        THEN [threw |-> TRUE, valid |-> FALSE, errors |-> <<>>]
        ELSE [threw |-> FALSE, valid |-> Len(errors) = 0, errors |-> errors]

(***************************************************************************)
(* Inputs of the Validator: one value per field from a small pool.         *)
(***************************************************************************)
Filler(n) == [i \in 1..n |-> "x"]

\* The limits of the application form's cover-letter rule.
FormMinCoverLetter == 50
FormMaxCoverLetter == 1000

\* The cover-letter rule of the form's validateForm: the error it sets.
FormCoverLetterError(coverLetter) ==
    IF Trim(coverLetter) = <<>> THEN "REQUIRED"
    ELSE IF Len(coverLetter) < FormMinCoverLetter THEN "MIN_LENGTH"
    ELSE IF Len(coverLetter) > FormMaxCoverLetter THEN "MAX_LENGTH"
    ELSE "none"

ApplicationData(jobId, applicantName, email, phone, coverLetter, yearsOfExperience, linkedIn, portfolio) ==
    [jobId |-> jobId, applicantName |-> applicantName, email |-> email,
     phone |-> phone, coverLetter |-> coverLetter,
     yearsOfExperience |-> yearsOfExperience, linkedIn |-> linkedIn,
     portfolio |-> portfolio]

\* text.startsWith(prefix), the anchored start of a regular expression.
StartsWith(text, prefix) ==
    Len(prefix) <= Len(text) /\ SubSeq(text, 1, Len(prefix)) = prefix

\* ToNumber of the text of a number input: an optional sign and digits,
\* the empty text being 0.
RECURSIVE NumeralValue(_)
NumeralValue(text) ==
    IF text = <<>> THEN 0
    ELSE LET digit == CHOOSE k \in 0..9 : Digits[k + 1] = text[Len(text)]
         IN  10 * NumeralValue(SubSeq(text, 1, Len(text) - 1)) + digit

ToNumber(v) ==
    IF v.t = "number" THEN v.n
    ELSE IF v.s # <<>> /\ v.s[1] = "-" THEN 0 - NumeralValue(Tail(v.s))
    ELSE NumeralValue(v.s)

\* Shortest name and phone number the form accepts, in characters.
FormMinName == 2
FormMinPhone == 10

\* /^https?:\/\/(www\.)?linkedin\.com/.test(text)
FormLinkedInTest(text) ==
    \E scheme \in {<<"h", "t", "t", "p", ":", "/", "/">>, <<"h", "t", "t", "p", "s", ":", "/", "/">>}, www \in {<<>>, <<"w", "w", "w", ".">>} :
        StartsWith(text, scheme \o www \o <<"l", "i", "n", "k", "e", "d", "i", "n", ".", "c", "o", "m">>)

\* /^https?:\/\/.+/.test(text), for text of one line
FormPortfolioTest(text) ==
    \E scheme \in {<<"h", "t", "t", "p", ":", "/", "/">>, <<"h", "t", "t", "p", "s", ":", "/", "/">>} :
        StartsWith(text, scheme) /\ Len(text) > Len(scheme)

\* validateForm: the fields of newErrors; the form is submitted when there
\* is none.
validateForm(formData) ==
    {"applicantName" : x \in {1} \cap
        (IF \/ Trim(formData.applicantName.s) = <<>>
            \/ Len(formData.applicantName.s) < FormMinName THEN {1} ELSE {})}
    \cup {"email" : x \in {1} \cap
        (IF \/ Trim(formData.email.s) = <<>>
            \/ ~EmailRegexTest(formData.email.s) THEN {1} ELSE {})}
    \cup {"phone" : x \in {1} \cap
        (IF \/ Trim(formData.phone.s) = <<>>
            \/ ~PhoneRegexTest(formData.phone.s)
            \/ Len(formData.phone.s) < FormMinPhone THEN {1} ELSE {})}
    \cup {"coverLetter" : x \in {1} \cap
        (IF FormCoverLetterError(formData.coverLetter.s) # "none" THEN {1} ELSE {})}
    \cup {"yearsOfExperience" : x \in {1} \cap
        (IF ToNumber(formData.yearsOfExperience) < 0 THEN {1} ELSE {})}
    \cup {"linkedIn" : x \in {1} \cap
        (IF /\ Truthy(formData.linkedIn)
            /\ ~FormLinkedInTest(formData.linkedIn.s) THEN {1} ELSE {})}
    \cup {"portfolio" : x \in {1} \cap
        (IF /\ Truthy(formData.portfolio)
            /\ ~FormPortfolioTest(formData.portfolio.s) THEN {1} ELSE {})}

\* What handleSubmit sends for a form state: {jobId: job.id, ...formData},
\* text fields as handleChange stored them, yearsOfExperience the initial 0
\* or the text of the input.
FormInputs ==
    {ApplicationData(Str(<<"j", "1">>), Str(applicantName), Str(<<"a", "@", "b", ".", "c", "o", "m">>), Str(phone),
                     Str(coverLetter), yearsOfExperience, Str(linkedIn), Str(portfolio)) :
        applicantName \in {<<"A", "l">>, <<" ", "A">>, <<"A">>},
        phone \in {<<"1", "2", "3", "4", "5", "6", "7", "8", "9", "0">>, <<"1", "2", "3", " ", "4", "5", "6", " ", "7", "8">>, <<"1", "2", "3", "4", "5">>},
        coverLetter \in {Filler(FormMinCoverLetter),
                         <<" ", " ">> \o Filler(FormMinCoverLetter - 2),
                         Filler(FormMinCoverLetter - 1)},
        yearsOfExperience \in {Num(0), Str(<<"3">>), Str(<<"-", "1">>)},
        linkedIn \in {<<>>, <<"h", "t", "t", "p", "s", ":", "/", "/", "w", "w", "w", ".", "l", "i", "n", "k", "e", "d", "i", "n", ".", "c", "o", "m", "/", "i", "n", "/", "a", "l">>, <<"l", "i", "n", "k", "e", "d", "i", "n", ".", "c", "o", "m", "/", "i", "n", "/", "a", "l">>},
        portfolio \in {<<>>, <<"h", "t", "t", "p", "s", ":", "/", "/", "a", "l", ".", "d", "e", "v">>, <<"h", "t", "t", "p", ":", "/", "/", "?">>}}

NoData ==
    ApplicationData(Undefined, Undefined, Undefined, Undefined, Undefined, Undefined,
                    Undefined, Undefined)

ValidatorInputs ==
    {ApplicationData(jobId, applicantName, email, phone, coverLetter,
                     yearsOfExperience, linkedIn, portfolio) :
        jobId \in {Undefined, Str(<<"j", "1">>), Num(5)},
        applicantName \in {Undefined, Str(<<" ", "A", " ">>), Str(<<"A", "l">>)},
        email \in {Undefined, Str(<<"a", "@", "b", ".", "c", "o", "m">>), Str(<<"a", "@", "b">>), Arr(<<<<"a", "@", "b", ".", "c", "o", "m">>>>)},
        phone \in {Undefined, Str(<<"+", "1", " ", "(", "5", "5", "5", ")", " ", "1", "2", "3", "-", "4", "5", "6", "7">>), Str(<<"1", "2", "3", " ", "4", "5", "6">>),
                   Num(1234567890)},
        coverLetter \in {Str(Filler(MinCoverLetterLength)),
                         Str(Filler(MinCoverLetterLength - 1)),
                         Str(<<" ", " ">> \o Filler(MinCoverLetterLength - 1) \o <<" ">>)},
        yearsOfExperience \in {Undefined, Num(2), Num(-1), Str(<<"2">>)},
        linkedIn \in {Undefined, Str(<<"l", "i", "n", "k", "e", "d", "i", "n", ".", "c", "o", "m", "/", "i", "n", "/", "a", "l">>), Str(<<"e", "x", "a", "m", "p", "l", "e", ".", "c", "o", "m", "/", "a", "l">>)},
        portfolio \in {Undefined, Str(<<"h", "t", "t", "p", "s", ":", "/", "/", "a", "l", ".", "d", "e", "v">>), Str(<<"a", "l", ".", "d", "e", "v">>)}}

\* The submission of the scenario with cover letters of every kind: absent,
\* not a string, blank, around the lower limit and around the form's upper
\* limit.
CoverLetterInputs ==
    {ApplicationData(Str(<<"j", "1">>), Str(<<"A", "l">>), Str(<<"a", "@", "b", ".", "c", "o", "m">>), Str(<<"1", "2", "3", "4", "5", "6", "7", "8", "9", "0">>),
                     coverLetter, Num(2), Undefined, Undefined) :
        coverLetter \in {Undefined, Num(50), Str(<<" ", " ", " ">>),
                         Str(Filler(MinCoverLetterLength - 1)),
                         Str(Filler(MinCoverLetterLength)),
                         Str(Filler(FormMaxCoverLetter)),
                         Str(Filler(FormMaxCoverLetter + 1)),
                         Str(<<" ">> \o Filler(FormMaxCoverLetter) \o <<" ">>)}}

VaInit ==
    /\ \/ vaInput \in ValidatorInputs
       \/ vaInput \in CoverLetterInputs
       \/ vaInput \in FormInputs
    /\ vaOut = <<>>

\* One call of validateApplication on the input.
Validate ==
    /\ vaOut = <<>>
    /\ vaOut' = <<validateApplication(vaInput)>>
    /\ UNCHANGED vaInput
    /\ UNCHANGED <<trVars, gwVars, apVars, clVars>>

(***************************************************************************)
(* Properties of the Transformer and of the Fetch Gateway.                 *)
(***************************************************************************)
Categories ==
    {SoftwareDevelopment, DataScience, Design, Marketing, ProductManagement, Sales,
     CustomerSupport, HumanResources, Finance, DevOps, QualityAssurance, Security}

ExperienceLevels == {EntryLevel, MidLevel, Senior, Lead}

\* C1: every Job the Transformer produces, whatever the record's tags and
\* position (missing ones included), has a category among the twelve category
\* names and an experienceLevel among Entry-Level, Mid-Level, Senior, Lead.
C1_ClosedSets ==
    \A i \in 1..Len(trOut) :
        /\ trOut[i].category \in Categories
        /\ trOut[i].experienceLevel \in ExperienceLevels

\* A Job was produced from a record without tags and without a position.
C1_Witness ==
    /\ trOut # <<>>
    /\ trRecord.tags = Undefined
    /\ trRecord.position = Undefined
    /\ trOut[1].category = SoftwareDevelopment
    /\ trOut[1].experienceLevel = MidLevel

\* The provider answered this request with a successful status and a JSON array.
AnsweredWithArray ==
    /\ gwPc = "responded"
    /\ gwUpstream.kind = "response"
    /\ ResponseOk(gwUpstream)
    /\ gwUpstream.json = "array"

\* The indices >= 1 (here >= 2: sequences start at 1) of the records that
\* have an id, in ascending order.
JobIndices(body) ==
    SelectIdx(Len(body), {i \in 2..Len(body) : body[i].isObject /\ Truthy(body[i].id)})

\* C4: with no filters, the data list is exactly the transformed records at
\* index >= 1 that have a (truthy) id, in upstream order; the element at index 0
\* and the records without an id never appear.
C4_SkipsFirstAndIdless ==
    (AnsweredWithArray /\ gwParams = NoParams) =>
        LET idx == JobIndices(gwUpstream.body)
        IN  /\ Len(gwResponse.data) = Len(idx)
            /\ \A k \in 1..Len(idx) : \E now \in Clock :
                    gwResponse.data[k] = transformRemoteOKJob(gwUpstream.body[idx[k]], now)

\* An array whose first element looks like a valid job, followed by a job and
\* a record without an id: only the second element is listed.
C4_Witness ==
    /\ AnsweredWithArray
    /\ gwParams = NoParams
    /\ gwUpstream.body = <<JobFigma, JobBackend, MetadataObj>>
    /\ Len(gwResponse.data) = 1
    /\ gwResponse.data[1].id = JobBackend.id

\* A filter value that is absent, empty or the filter's sentinel.
NoConstraint(value, sentinel) ==
    value = Undefined \/ value.s = <<>> \/ value.s = sentinel

\* `text` is a case-insensitive substring of one of the four searched fields.
QueryMatches(job, text) ==
    \E field \in {job.title, job.company, job.description, job.category} :
        Includes(ToLowerCase(field), ToLowerCase(text))

\* The job satisfies every active filter; queryActive says when the query
\* constrains the list.
Satisfies(job, query, experienceLevel, category, jobType, queryActive) ==
    /\ queryActive => QueryMatches(job, query.s)
    /\ NoConstraint(experienceLevel, <<"A", "l", "l", " ", "L", "e", "v", "e", "l", "s">>)
            \/ job.experienceLevel = experienceLevel.s
    /\ NoConstraint(category, <<"A", "l", "l", " ", "C", "a", "t", "e", "g", "o", "r", "i", "e", "s">>) \/ job.category = category.s
    /\ NoConstraint(jobType, <<"A", "l", "l", " ", "T", "y", "p", "e", "s">>) \/ job.type = jobType.s

\* The sentinel (or empty) value of a filter replaced by its absence.
WithoutSentinel(value, sentinel) ==
    IF NoConstraint(value, sentinel) THEN Undefined ELSE value

\* The data list is the order-preserving sub-list of the transformed jobs
\* that satisfy every active filter.
FilteredExactly(queryActive) ==
    AnsweredWithArray =>
        \E nows \in ClockReads(ValidEntries(Slice1(gwUpstream.body))) :
            LET all == ListJobs(Undefined, Undefined, Undefined, Undefined,
                                gwUpstream.body, TRUE, nows)
            IN  gwResponse.data =
                    SelectSeq(all, LAMBDA job :
                        Satisfies(job, QueryOf(gwParams), ExperienceLevelOf(gwParams),
                                  gwParams["category"], gwParams["jobType"], queryActive))

\* The same request with every sentinel-valued filter left out gives the
\* same list.
SentinelIsAbsence ==
    AnsweredWithArray =>
        \E nows \in ClockReads(ValidEntries(Slice1(gwUpstream.body))) :
            gwResponse.data =
                ListJobs(QueryOf(gwParams),
                         WithoutSentinel(ExperienceLevelOf(gwParams), <<"A", "l", "l", " ", "L", "e", "v", "e", "l", "s">>),
                         WithoutSentinel(gwParams["category"], <<"A", "l", "l", " ", "C", "a", "t", "e", "g", "o", "r", "i", "e", "s">>),
                         WithoutSentinel(gwParams["jobType"], <<"A", "l", "l", " ", "T", "y", "p", "e", "s">>),
                         gwUpstream.body, TRUE, nows)

\* C5 (as amended): the data list is exactly the order-preserving sub-list of
\* the transformed jobs satisfying every active filter, the query being active
\* when it is not blank (non-empty after trimming); an absent, empty or
\* sentinel filter excludes no job, and a sentinel gives the same list as the
\* request without it.
C5_FiltersExact ==
    /\ FilteredExactly(Trim(QueryOf(gwParams).s) # <<>>)
    /\ SentinelIsAbsence

\* C5 (as stated): the query constrains the list whenever it is non-empty.
C5_AsStated ==
    /\ FilteredExactly(QueryOf(gwParams).s # <<>>)
    /\ SentinelIsAbsence

\* A request carrying a sentinel and an active query: some job is excluded
\* by the query and some job is listed.
C5_Witness ==
    /\ AnsweredWithArray
    /\ gwParams["category"] = Str(<<"A", "l", "l", " ", "C", "a", "t", "e", "g", "o", "r", "i", "e", "s">>)
    /\ gwParams["q"] = Str(<<"A", "C", "M", "E">>)
    /\ gwUpstream.body = <<MetadataObj, JobBackend, JobFigma>>
    /\ Len(gwResponse.data) = 1
    /\ gwResponse.data[1].company = <<"A", "c", "m", "e">>

\* The call to the external provider failed: it threw, answered with a
\* non-successful status, or its body was not JSON.
UpstreamFailed ==
    /\ gwPc = "responded"
    /\ \/ gwUpstream.kind = "networkError"
       \/ ~ResponseOk(gwUpstream)
       \/ gwUpstream.json = "invalid"

\* C10: when the provider's call fails, GET /api answers HTTP 500 with an
\* empty data list, status 500 and the error's message, the provider's status
\* included when it was not successful.
C10_UpstreamFailureIs500 ==
    UpstreamFailed =>
        /\ gwResponse.httpStatus = 500
        /\ gwResponse.status = 500
        /\ gwResponse.data = <<>>
        /\ gwResponse.message # <<>>
        /\ (gwUpstream.kind = "response" /\ ~ResponseOk(gwUpstream)) =>
                gwResponse.message =
                    <<"R", "e", "m", "o", "t", "e", "O", "K", " ", "A", "P", "I", " ", "e", "r", "r", "o", "r", ":", " ">> \o NumToStr(gwUpstream.status)

\* The provider answered 503 and the route answered 500.
C10_Witness ==
    /\ gwPc = "responded"
    /\ gwUpstream.kind = "response"
    /\ gwUpstream.status = 503
    /\ gwResponse.httpStatus = 500
    /\ gwResponse.data = <<>>

\* C18: in every list the route returns, every id is a string and no two
\* jobs have the same id.
C18_IdsAreUniqueStrings ==
    AnsweredWithArray =>
        /\ \A k \in 1..Len(gwResponse.data) : gwResponse.data[k].id.t = "string"
        /\ \A k, l \in 1..Len(gwResponse.data) :
              k # l => gwResponse.data[k].id # gwResponse.data[l].id

RuleOutcomes(data) ==
    {<<JobIdInvalid(data), "Job ID is required">>,
     <<ApplicantNameInvalid(data), "Applicant name must be at least 2 characters">>,
     <<EmailInvalid(data), "Valid email address is required">>,
     <<PhoneInvalid(data), "Valid phone number is required (minimum 10 digits)">>,
     <<CoverLetterInvalid(data), "Cover letter must be at least 50 characters">>,
     <<YearsOfExperienceInvalid(data),
       "Years of experience must be a non-negative number">>,
     <<LinkedInInvalid(data), "LinkedIn URL must be a valid LinkedIn profile URL">>,
     <<PortfolioInvalid(data), "Portfolio must be a valid URL">>}

Occurrences(seq, x) == Cardinality({i \in 1..Len(seq) : seq[i] = x})

OtherFieldsValid(data) ==
    /\ ~PhoneThrows(data)
    /\ ~JobIdInvalid(data)
    /\ ~ApplicantNameInvalid(data)
    /\ ~EmailInvalid(data)
    /\ ~PhoneInvalid(data)
    /\ ~YearsOfExperienceInvalid(data)
    /\ ~LinkedInInvalid(data)
    /\ ~PortfolioInvalid(data)

\* The cover letter is a string of at least 50 characters once trimmed.
LetterLongEnough(data) ==
    /\ data.coverLetter.t = "string"
    /\ Len(Trim(data.coverLetter.s)) >= 50

\* C16: with all other fields valid, the server's validator accepts a
\* submission exactly when the trimmed cover letter has at least 50
\* characters; a rejected one gets the cover-letter minimum-length error and
\* no other; no length is too great for the server, and a cover letter of
\* more than 1000 characters is accepted by it although the form's rule
\* rejects it.
C16_CoverLetterLowerBoundOnly ==
    (vaOut # <<>> /\ OtherFieldsValid(vaInput)) =>
        /\ ~vaOut[1].threw
        /\ vaOut[1].valid <=> LetterLongEnough(vaInput)
        /\ ~vaOut[1].valid =>
              vaOut[1].errors = <<"Cover letter must be at least 50 characters">>
        /\ (LetterLongEnough(vaInput) /\ Len(vaInput.coverLetter.s) > 1000) =>
              /\ vaOut[1].valid
              /\ FormCoverLetterError(vaInput.coverLetter.s) = "MAX_LENGTH"

\* A cover letter of 1001 characters was accepted by the validator; the form
\* rejects it.
C16_Witness ==
    /\ vaOut # <<>>
    /\ OtherFieldsValid(vaInput)
    /\ vaInput.coverLetter.t = "string"
    /\ Len(vaInput.coverLetter.s) = 1001
    /\ vaOut[1].valid
    /\ FormCoverLetterError(vaInput.coverLetter.s) = "MAX_LENGTH"

\* C27: a submission of a form state that validateForm accepts is accepted
\* by validateApplication.
C27_FormAcceptedIsServerAccepted ==
    (vaOut # <<>> /\ vaInput \in FormInputs /\ validateForm(vaInput) = {}) =>
        (~vaOut[1].threw /\ vaOut[1].valid)

(***************************************************************************)
(* Application route: POST /api/apply and GET /api/apply over the          *)
(* in-memory list `applications`. Handlers run one at a time between their *)
(* awaits: POST awaits request.json() and the 500 ms delay.                *)
(***************************************************************************)
Handlers == 1..MaxHandlers

\* Math.random().toString(36).substr(2, 9): up to nine characters of 0-9a-z,
\* none when Math.random() gives 0.
RandomSuffixes == {<<>>, <<"k", "3", "x", "9", "q", "0", "z", "1", "a">>}

\* n in decimal, padded with zeros to `width` digits.
Pad(n, width) ==
    LET text == NumToStr(n)
    IN  [i \in 1..(width - Len(text)) |-> "0"] \o text

\* Date.prototype.toISOString for a time within the first minute of the epoch.
ToISOString(ms) ==
    <<"1", "9", "7", "0", "-", "0", "1", "-", "0", "1", "T", "0", "0", ":", "0", "0", ":">> \o Pad(ms \div 1000, 2) \o <<".">> \o Pad(ms % 1000, 3) \o <<"Z">>

\* The request bodies: text that is not JSON, the JSON value null, or an
\* object with the fields the route reads.
RequestBody(json, data) == [json |-> json, data |-> data]

LetterOf50 == <<" ", " ">> \o Filler(MinCoverLetterLength) \o <<" ">>

BodyAl ==
    RequestBody("object",
        ApplicationData(Str(<<"j", "1">>), Str(<<"A", "l">>), Str(<<"A", "l", "@", "B", ".", "c", "o", "m">>), Str(<<"1", "2", "3", "4", "5", "6", "7", "8", "9", "0">>),
                        Str(LetterOf50), Num(2), Undefined, Undefined))
BodyBo ==
    RequestBody("object",
        ApplicationData(Str(<<"j", "2">>), Str(<<" ", "B", "o", " ">>), Str(<<"b", "o", "@", "x", ".", "i", "o">>),
                        Str(<<"+", "1", " ", "(", "5", "5", "5", ")", " ", "1", "2", "3", "-", "4", "5", "6", "7">>), Str(Filler(MinCoverLetterLength)),
                        Undefined, Str(<<"l", "i", "n", "k", "e", "d", "i", "n", ".", "c", "o", "m", "/", "i", "n", "/", "b", "o">>), Str(<<"h", "t", "t", "p", "s", ":", "/", "/", "b", "o", ".", "d", "e", "v">>)))
BodyInvalid ==
    RequestBody("object",
        ApplicationData(Str(<<"j", "1">>), Str(<<"A">>), Str(<<"a", "@", "b">>), Str(<<"1", "2", "3", "4", "5", "6", "7", "8", "9", "0">>),
                        Str(Filler(MinCoverLetterLength - 1)), Undefined, Undefined,
                        Undefined))
BodyArrayEmail ==
    RequestBody("object",
        ApplicationData(Str(<<"j", "1">>), Str(<<"A", "l">>), Arr(<<<<"a", "@", "b", ".", "c", "o", "m">>>>),
                        Str(<<"1", "2", "3", "4", "5", "6", "7", "8", "9", "0">>), Str(Filler(MinCoverLetterLength)), Num(2),
                        Undefined, Undefined))
BodyNumberPhone ==
    RequestBody("object",
        ApplicationData(Str(<<"j", "1">>), Str(<<"A", "l">>), Str(<<"a", "@", "b", ".", "c", "o", "m">>), Num(1234567890),
                        Str(Filler(MinCoverLetterLength)), Undefined, Undefined,
                        Undefined))
BodyNotJson == RequestBody("invalid", NoData)
BodyNull == RequestBody("null", NoData)

RequestBodies ==
    {BodyAl, BodyBo, BodyInvalid, BodyArrayEmail, BodyNumberPhone, BodyNotJson, BodyNull}

\* The application object of POST: the trimmed and normalised fields, the
\* generated id and the submission time.
NoApplication ==
    [id |-> <<>>, jobId |-> <<>>, applicantName |-> <<>>, email |-> <<>>,
     phone |-> <<>>, coverLetter |-> <<>>, linkedIn |-> Undefined,
     portfolio |-> Undefined, yearsOfExperience |-> Undefined, submittedAt |-> <<>>]

\* body.email.trim(), body.linkedIn?.trim() and body.portfolio?.trim() throw
\* a TypeError on a value that is no string (?. guards undefined only).
CreateThrows(data) ==
    \/ TypeOf(data.email) # "string"
    \/ data.linkedIn # Undefined /\ TypeOf(data.linkedIn) # "string"
    \/ data.portfolio # Undefined /\ TypeOf(data.portfolio) # "string"

\* `now` is Date.now() in the id, `later` the time of new Date(), `suffix`
\* what Math.random() gave.
CreateApplication(data, now, suffix, later) ==
    [id |-> <<"a", "p", "p", "-">> \o NumToStr(now) \o <<"-">> \o suffix,
     jobId |-> data.jobId.s,
     applicantName |-> Trim(data.applicantName.s),
     email |-> ToLowerCase(Trim(data.email.s)),
     phone |-> Trim(data.phone.s),
     coverLetter |-> Trim(data.coverLetter.s),
     linkedIn |-> OrElse(Str(Trim(data.linkedIn.s)), Undefined),
     portfolio |-> OrElse(Str(Trim(data.portfolio.s)), Undefined),
     yearsOfExperience |-> OrElse(data.yearsOfExperience, Num(0)),
     submittedAt |-> ToISOString(later)]

PushApplication_Mutant(store, application) == <<application>> \o store

\* A push written as an assignment at the length read before the await.
PushApplication_Overwrite(store, application) ==
    IF store = <<>> THEN <<application>>
    ELSE [store EXCEPT ![Len(store)] = application]

PushApplication_Dedup(store, application) ==
    IF \E i \in 1..Len(store) :
           store[i].jobId = application.jobId /\ store[i].email = application.email
    THEN store
    ELSE Append(store, application)

\* applications.push(application)
PushApplication(store, application) == Append(store, application)

\* The responses of POST.
NoPostResponse ==
    [httpStatus |-> 0, success |-> FALSE, message |-> "", errors |-> <<>>,
     applicationId |-> <<>>, submittedAt |-> <<>>, jobId |-> <<>>]

PostFailure(httpStatus, message, errors) ==
    [httpStatus |-> httpStatus, success |-> FALSE, message |-> message,
     errors |-> errors, applicationId |-> <<>>, submittedAt |-> <<>>, jobId |-> <<>>]

PostCreated(application) ==
    [httpStatus |-> 201, success |-> TRUE,
     message |-> "Application submitted successfully", errors |-> <<>>,
     applicationId |-> application.id, submittedAt |-> application.submittedAt,
     jobId |-> application.jobId]

RejectBody_Mutant(body) ==
    IF body.json = "invalid"
    THEN <<PostFailure(500, "Unexpected end of JSON input", <<>>)>>
    ELSE IF body.json = "null"
    THEN <<PostFailure(500, "Cannot read properties of null (reading 'jobId')", <<>>)>>
    ELSE LET validation == validateApplication(body.data)
         IN  IF validation.threw
             THEN <<PostFailure(500, "phone.replace is not a function", <<>>)>>
             ELSE IF ~validation.valid
             THEN <<PostFailure(400, "Validation failed", <<>>)>>
             ELSE IF CreateThrows(body.data)
             THEN <<PostFailure(500, "trim is not a function", <<>>)>>
             ELSE <<>>

\* The response of a POST that ends before the push, <<>> when it goes on:
\* request.json() rejecting with a SyntaxError, a TypeError thrown while
\* validating or creating the application, or a failed validation.
RejectBody(body) ==
    IF body.json = "invalid"
    THEN <<PostFailure(400, "Invalid JSON data", <<>>)>>
    ELSE IF body.json = "null"
    THEN <<PostFailure(500, "Cannot read properties of null (reading 'jobId')", <<>>)>>
    ELSE LET validation == validateApplication(body.data)
         IN  IF validation.threw
             THEN <<PostFailure(500, "phone.replace is not a function", <<>>)>>
             ELSE IF ~validation.valid
             THEN <<PostFailure(400, "Validation failed", validation.errors)>>
             ELSE IF CreateThrows(body.data)
             THEN <<PostFailure(500, "trim is not a function", <<>>)>>
             ELSE <<>>

\* The fields GET /api/apply lists of a record.
JobSummary(app) ==
    [id |-> app.id, applicantName |-> app.applicantName, email |-> app.email,
     submittedAt |-> app.submittedAt]

RecentSummary(app) ==
    [id |-> app.id, jobId |-> app.jobId, applicantName |-> app.applicantName,
     email |-> app.email, submittedAt |-> app.submittedAt]

\* The most recent records the summary lists.
RecentLimit == 10

SliceLast_Mutant(arr, n) ==
    IF Len(arr) <= n THEN arr ELSE SubSeq(arr, 1, n)

\* Array.prototype.slice(-n)
SliceLast(arr, n) ==
    IF Len(arr) <= n THEN arr ELSE SubSeq(arr, Len(arr) - n + 1, Len(arr))

\* Array.prototype.reverse (on the copy slice made)
Reverse(arr) == [i \in 1..Len(arr) |-> arr[Len(arr) + 1 - i]]

NoAdminResponse ==
    [kind |-> "none", jobId |-> <<>>, count |-> 0, applications |-> <<>>]

\* The response of GET /api/apply.
AdminResponse(store, jobId) ==
    IF Truthy(jobId)
    THEN LET jobApplications == SelectSeq(store, LAMBDA app : app.jobId = jobId.s)
         IN  [kind |-> "job", jobId |-> jobId.s, count |-> Len(jobApplications),
              applications |->
                [i \in 1..Len(jobApplications) |-> JobSummary(jobApplications[i])]]
    ELSE LET recent == Reverse(SliceLast(store, RecentLimit))
         IN  [kind |-> "all", jobId |-> <<>>, count |-> Len(store),
              applications |-> [i \in 1..Len(recent) |-> RecentSummary(recent[i])]]

AdminJobIds == {Undefined, Str(<<>>), Str(<<"j", "1">>), Str(<<"j", "2">>)}

FirstInstant == CHOOSE t \in Clock : \A u \in Clock : t <= u

ApInit ==
    /\ applications = <<>>
    /\ apPc = [h \in Handlers |-> "idle"]
    /\ apBody = [h \in Handlers |-> BodyNull]
    /\ apLocal = [h \in Handlers |-> NoApplication]
    /\ apResp = [h \in Handlers |-> NoPostResponse]
    /\ apClock = FirstInstant
    /\ apAdmin = NoAdminResponse

\* The accepted bodies in the order of their submission, repeated in turn.
SubmissionCycles ==
    {<<BodyAl>>, <<BodyBo>>, <<BodyAl, BodyBo>>, <<BodyBo, BodyAl>>,
     <<BodyAl, BodyAl, BodyBo>>}

\* The store after n accepted submissions, one a millisecond, the last of
\* them before the first instant of the clock.
StoreAfter(cycle, n) ==
    [i \in 1..n |->
        LET body == cycle[((i - 1) % Len(cycle)) + 1]
            now == FirstInstant - n - 1 + i
        IN  CreateApplication(body.data, now, <<"k", "3", "x", "9", "q", "0", "z", "1", "a">>, now)]

SubmittedStores == {StoreAfter(cycle, n) : cycle \in SubmissionCycles, n \in 0..MaxStored}

\* The route after earlier submissions, no POST in progress.
AdInit ==
    /\ applications \in SubmittedStores
    /\ apPc = [h \in Handlers |-> "idle"]
    /\ apBody = [h \in Handlers |-> BodyNull]
    /\ apLocal = [h \in Handlers |-> NoApplication]
    /\ apResp = [h \in Handlers |-> NoPostResponse]
    /\ apClock = FirstInstant
    /\ apAdmin = NoAdminResponse

ApOthers == <<trVars, gwVars, vaVars, clVars>>

\* No handler is between producing its response and returning it: a handler
\* returns in the same run in which it produced the response, so nothing
\* else runs in between.
NoneReturning ==
    /\ \A h \in Handlers : apPc[h] # "done"
    /\ apAdmin = NoAdminResponse

\* A POST arrives; the handler awaits request.json(). The store is bounded:
\* no request arrives that could make it longer than MaxApplications.
POSTStart(h) ==
    /\ NoneReturning
    /\ apPc[h] = "idle"
    /\ Len(applications) + Cardinality({g \in Handlers : apPc[g] = "parsing"})
            < MaxApplications
    /\ \E body \in RequestBodies : apBody' = [apBody EXCEPT ![h] = body]
    /\ apPc' = [apPc EXCEPT ![h] = "parsing"]
    /\ UNCHANGED <<applications, apLocal, apResp, apClock, apAdmin, ApOthers>>

\* request.json() settles; the handler validates, creates the application
\* and pushes it, up to the await of the delay, or answers an error.
POSTParsed(h) ==
    /\ NoneReturning
    /\ apPc[h] = "parsing"
    /\ IF RejectBody(apBody[h]) # <<>>
       THEN /\ apResp' = [apResp EXCEPT ![h] = RejectBody(apBody[h])[1]]
            /\ apPc' = [apPc EXCEPT ![h] = "done"]
            /\ UNCHANGED <<applications, apLocal, apClock>>
       ELSE \E suffix \in RandomSuffixes, later \in {t \in Clock : t >= apClock} :
            LET application ==
                    CreateApplication(apBody[h].data, apClock, suffix, later)
            IN  /\ applications' = PushApplication(applications, application)
                /\ apLocal' = [apLocal EXCEPT ![h] = application]
                /\ apClock' = later
                /\ apPc' = [apPc EXCEPT ![h] = "delay"]
                /\ UNCHANGED apResp
    /\ UNCHANGED <<apBody, apAdmin, ApOthers>>

\* The delay is over: the handler answers 201 from its application object.
POSTRespond(h) ==
    /\ NoneReturning
    /\ apPc[h] = "delay"
    /\ apResp' = [apResp EXCEPT ![h] = PostCreated(apLocal[h])]
    /\ apPc' = [apPc EXCEPT ![h] = "done"]
    /\ UNCHANGED <<applications, apBody, apLocal, apClock, apAdmin, ApOthers>>

\* The response is delivered and the handler's locals are gone.
POSTReturn(h) ==
    /\ apPc[h] = "done"
    /\ apPc' = [apPc EXCEPT ![h] = "idle"]
    /\ apBody' = [apBody EXCEPT ![h] = BodyNull]
    /\ apLocal' = [apLocal EXCEPT ![h] = NoApplication]
    /\ apResp' = [apResp EXCEPT ![h] = NoPostResponse]
    /\ UNCHANGED <<applications, apClock, apAdmin, ApOthers>>

\* GET /api/apply: it has no await and answers from the store as it is.
GETApplications ==
    /\ NoneReturning
    /\ \E jobId \in AdminJobIds : apAdmin' = AdminResponse(applications, jobId)
    /\ UNCHANGED <<applications, apPc, apBody, apLocal, apResp, apClock, ApOthers>>

\* GET /api/apply returns its response.
GETApplicationsReturn ==
    /\ apAdmin # NoAdminResponse
    /\ apAdmin' = NoAdminResponse
    /\ UNCHANGED <<applications, apPc, apBody, apLocal, apResp, apClock, ApOthers>>

\* A millisecond passes.
Tick ==
    /\ NoneReturning
    /\ apClock + 1 \in Clock
    /\ apClock' = apClock + 1
    /\ UNCHANGED <<applications, apPc, apBody, apLocal, apResp, apAdmin, ApOthers>>

(***************************************************************************)
(* Properties of the application route.                                    *)
(***************************************************************************)
\* validateApplication returned {valid: true} for the body.
PassesValidation(body) ==
    /\ body.json = "object"
    /\ ~validateApplication(body.data).threw
    /\ validateApplication(body.data).valid

\* validateApplication returned {valid: false} for the body.
FailsValidation(body) ==
    /\ body.json = "object"
    /\ ~validateApplication(body.data).threw
    /\ ~validateApplication(body.data).valid

AlnumChars == {LowerCase[i] : i \in 1..Len(LowerCase)} \cup DigitChars

\* app-<digits>-<alnum>; the last part is as long as Math.random() made it.
IsApplicationId(id) ==
    \E dash \in 6..Len(id) :
        /\ SubSeq(id, 1, 4) = <<"a", "p", "p", "-">>
        /\ \A i \in 5..(dash - 1) : id[i] \in DigitChars
        /\ id[dash] = "-"
        /\ \A i \in (dash + 1)..Len(id) : id[i] \in AlnumChars

\* C7: a POST whose body passes validation has its record, with the submitted
\* jobId, an id app-<digits>-<alnum> and a submittedAt, in the store from the
\* step that validated it on, and is answered 201 with that record's
\* applicationId, submittedAt and jobId.
C7_AsStated ==
    \A h \in Handlers :
        (PassesValidation(apBody[h]) /\ apPc[h] \in {"delay", "done"}) =>
            /\ \E i \in 1..Len(applications) : applications[i] = apLocal[h]
            /\ apLocal[h].jobId = apBody[h].data.jobId.s
            /\ IsApplicationId(apLocal[h].id)
            /\ apLocal[h].submittedAt # <<>>
            /\ apPc[h] = "done" =>
                /\ apResp[h].httpStatus = 201
                /\ apResp[h].applicationId = apLocal[h].id
                /\ apResp[h].submittedAt = apLocal[h].submittedAt
                /\ apResp[h].jobId = apLocal[h].jobId

\* C8: a POST whose body fails validation is answered 400 "Validation failed"
\* with the validator's non-empty errors, a POST whose body is not JSON is
\* answered 400 "Invalid JSON data", and the step that answers leaves the
\* store as it was.
C8_RejectedLeavesStore ==
    [][\A h \in Handlers :
        (apPc[h] = "parsing" /\ apPc'[h] # "parsing") =>
            /\ FailsValidation(apBody[h]) =>
                /\ apPc'[h] = "done"
                /\ apResp'[h].httpStatus = 400
                /\ apResp'[h].message = "Validation failed"
                /\ apResp'[h].errors = validateApplication(apBody[h].data).errors
                /\ apResp'[h].errors # <<>>
                /\ applications' = applications
            /\ apBody[h].json = "invalid" =>
                /\ apPc'[h] = "done"
                /\ apResp'[h].httpStatus = 400
                /\ apResp'[h].message = "Invalid JSON data"
                /\ applications' = applications]_vars

\* A submission failing several rules was answered 400 while another
\* handler's accepted application was in the store.
C8_Witness ==
    \E h \in Handlers :
        /\ apPc[h] = "done"
        /\ apResp[h].httpStatus = 400
        /\ apResp[h].message = "Validation failed"
        /\ Len(apResp[h].errors) >= 3
        /\ Len(applications) = 1
        /\ \E g \in Handlers : apPc[g] = "delay"

IsPrefix(a, b) == Len(a) <= Len(b) /\ SubSeq(b, 1, Len(a)) = a

\* C9: every step leaves the store as it was or appends to it (so the store
\* at any earlier point is a prefix of the store at any later point), and a
\* GET leaves it as it was.
C9_StoreAppendOnly ==
    [][/\ IsPrefix(applications, applications')
       /\ apAdmin' # apAdmin => applications' = applications]_vars

\* Two applications are stored and a GET has listed both.
C9_Witness ==
    /\ Len(applications) = 2
    /\ apAdmin.kind = "all"
    /\ apAdmin.count = 2
    /\ Len(apAdmin.applications) = 2

\* The store holds a record with the jobId and the email of the body.
AlreadyStored(body) ==
    /\ body.json = "object"
    /\ body.data.jobId.t = "string"
    /\ body.data.email.t = "string"
    /\ \E i \in 1..Len(applications) :
          /\ applications[i].jobId = body.data.jobId.s
          /\ applications[i].email = ToLowerCase(Trim(body.data.email.s))

\* The stored records with the jobId and the email of the record.
SameJobAndEmail(app) ==
    {i \in 1..Len(applications) :
        applications[i].jobId = app.jobId /\ applications[i].email = app.email}

\* C19: a POST whose body passes validation while the store already holds a
\* record with its jobId and email appends one more record with that jobId
\* and email, and the handler answers 201 for it although the store holds
\* two or more such records.
C19_ResubmissionStoredAgain ==
    [][\A h \in Handlers :
        /\ (/\ apPc[h] = "parsing"
            /\ apPc'[h] # "parsing"
            /\ PassesValidation(apBody[h])
            /\ AlreadyStored(apBody[h])) =>
                /\ apPc'[h] = "delay"
                /\ Len(applications') = Len(applications) + 1
                /\ SubSeq(applications', 1, Len(applications)) = applications
                /\ applications'[Len(applications')].jobId = apBody[h].data.jobId.s
                /\ applications'[Len(applications')].email =
                       ToLowerCase(Trim(apBody[h].data.email.s))
        /\ (/\ apPc[h] = "delay"
            /\ apPc'[h] = "done"
            /\ Cardinality(SameJobAndEmail(apLocal[h])) >= 2) =>
                /\ apResp'[h].httpStatus = 201
                /\ apResp'[h].success
                /\ apResp'[h].applicationId = apLocal[h].id
                /\ applications' = applications]_vars

\* The same body was submitted twice: the store holds two records with one
\* jobId and one email, and the second submission was answered 201.
C19_Witness ==
    /\ Len(applications) = 2
    /\ applications[1].jobId = applications[2].jobId
    /\ applications[1].email = applications[2].email
    /\ \E h \in Handlers :
          /\ apPc[h] = "done"
          /\ apBody[h] = BodyAl
          /\ apResp[h].httpStatus = 201
          /\ apResp[h].applicationId = applications[2].id

\* The positions of the stored records of the job, in submission order.
PositionsOf(jobId) == {i \in 1..Len(applications) : applications[i].jobId = jobId}

\* The position of the k-th stored record of the job.
KthOf(jobId, k) ==
    CHOOSE i \in PositionsOf(jobId) :
        Cardinality({j \in PositionsOf(jobId) : j <= i}) = k

Smaller(a, b) == IF a <= b THEN a ELSE b

\* C20: GET /api/apply without a jobId reports the number of stored records
\* and lists the last ten of them (all when there are fewer), the most
\* recent first; with a jobId it reports the number of stored records of that
\* job and lists exactly those, in submission order.
C20_AdminReportsStore ==
    /\ apAdmin.kind = "all" =>
        /\ apAdmin.count = Len(applications)
        /\ Len(apAdmin.applications) = Smaller(RecentLimit, Len(applications))
        /\ \A k \in 1..Len(apAdmin.applications) :
              LET app == applications[Len(applications) - k + 1]
              IN  apAdmin.applications[k] =
                      [id |-> app.id, jobId |-> app.jobId,
                       applicantName |-> app.applicantName, email |-> app.email,
                       submittedAt |-> app.submittedAt]
    /\ apAdmin.kind = "job" =>
        /\ apAdmin.count = Cardinality(PositionsOf(apAdmin.jobId))
        /\ Len(apAdmin.applications) = apAdmin.count
        /\ \A k \in 1..Len(apAdmin.applications) :
              LET app == applications[KthOf(apAdmin.jobId, k)]
              IN  apAdmin.applications[k] =
                      [id |-> app.id, applicantName |-> app.applicantName,
                       email |-> app.email, submittedAt |-> app.submittedAt]

\* With more than ten records of two jobs stored, the summary listed ten,
\* the latest first and the earliest two left out.
C20_Witness ==
    /\ Len(applications) = RecentLimit + 2
    /\ apAdmin.kind = "all"
    /\ apAdmin.count = RecentLimit + 2
    /\ Len(apAdmin.applications) = RecentLimit
    /\ apAdmin.applications[1].id = applications[RecentLimit + 2].id
    /\ apAdmin.applications[RecentLimit].id = applications[3].id
    /\ apAdmin.applications[1].jobId # apAdmin.applications[2].jobId

\* The handlers whose application was pushed and that have not returned.
Accepted == {h \in Handlers : apPc[h] = "delay" \/ (apPc[h] = "done" /\ apResp[h].success)}

\* The handlers that push in this step.
Pushing == {h \in Handlers : apPc[h] = "parsing" /\ apPc'[h] = "delay"}

\* C23: whichever way the handlers interleave, every step lengthens the
\* store by exactly the number of handlers that push in it, the record pushed
\* being the handler's own and the earlier ones staying in place; the records
\* of the handlers that pushed and have not returned lie at distinct positions
\* of the store; and each such handler answers 201 with its own record's id.
C23_ConcurrentAppendsKept ==
    /\ [][/\ Len(applications') = Len(applications) + Cardinality(Pushing)
          /\ IsPrefix(applications, applications')
          /\ \A h \in Pushing : applications'[Len(applications')] = apLocal'[h]
          /\ \A h \in Handlers : (apPc[h] = "delay" /\ apPc'[h] # "delay") =>
                /\ apPc'[h] = "done"
                /\ apResp'[h].httpStatus = 201
                /\ apResp'[h].applicationId = apLocal[h].id]_vars
    /\ [](\E at \in [Accepted -> 1..Len(applications)] :
              /\ \A h \in Accepted : applications[at[h]] = apLocal[h]
              /\ \A g, h \in Accepted : g # h => at[g] # at[h])

\* Two handlers were between their push and their answer at once, the first
\* to arrive having pushed second, and both records are in the store.
C23_Witness ==
    /\ Len(applications) = 2
    /\ apPc[1] = "delay"
    /\ apPc[2] = "delay"
    /\ applications[1] = apLocal[2]
    /\ applications[2] = apLocal[1]
    /\ apLocal[1] # apLocal[2]

\* C29: no two records of the store have the same id.
C29_StoredIdsDistinct ==
    \A i, j \in 1..Len(applications) :
        i # j => applications[i].id # applications[j].id

(***************************************************************************)
(* The client: fetchJobs and the JobProvider (filters, debounced loading). *)
(***************************************************************************)
\* The quiet period of the effect's setTimeout, in milliseconds.
DebounceMs == 300

\* How far the time advances between two events, in milliseconds.
TimeSteps == {100, 200}

\* The constants module of the application is not part of the sources: the
\* defaults mean "no constraint", the mock dataset is a fixed non-empty list.
DEFAULT_FILTERS ==
    [category |-> <<>>, location |-> <<>>, experienceLevel |-> <<>>,
     jobType |-> <<>>, searchQuery |-> <<>>, remoteOnly |-> FALSE]

MOCK_JOBS == <<"mock-1", "mock-2">>

FETCH_FAILED == <<"F", "E", "T", "C", "H", "_", "F", "A", "I", "L", "E", "D">>

\* a || b on strings.
OrElseStr(a, b) == IF a # <<>> THEN a ELSE b

\* params.append(name, value) when the condition holds.
AppendIf(params, cond, name, value) ==
    IF cond THEN Append(params, <<name, value>>) ELSE params

\* The search parameters fetchJobs builds from its arguments.
BuildParams(query, location, apiFilters) ==
    LET p0 == << <<"q", query>>, <<"l", location>> >>
        p1 == AppendIf(p0, /\ apiFilters.experienceLevel # <<>>
                           /\ apiFilters.experienceLevel # <<"A", "l", "l", " ", "L", "e", "v", "e", "l", "s">>,
                       "experienceLevel", apiFilters.experienceLevel)
        p2 == AppendIf(p1, /\ apiFilters.category # <<>>
                           /\ apiFilters.category # <<"A", "l", "l", " ", "C", "a", "t", "e", "g", "o", "r", "i", "e", "s">>,
                       "category", apiFilters.category)
        p3 == AppendIf(p2, /\ apiFilters.jobType # <<>>
                           /\ apiFilters.jobType # <<"A", "l", "l", " ", "T", "y", "p", "e", "s">>,
                       "jobType", apiFilters.jobType)
    IN  AppendIf(p3, apiFilters.remoteOnly, "remote", <<"t", "r", "u", "e">>)

\* The request loadJobs makes fetchJobs issue for a filters state.
RequestFor(f) ==
    BuildParams(OrElseStr(f.searchQuery, <<"s", "o", "f", "t", "w", "a", "r", "e", " ", "d", "e", "v", "e", "l", "o", "p", "e", "r">>),
                OrElseStr(f.location, <<"r", "e", "m", "o", "t", "e">>),
                [experienceLevel |-> f.experienceLevel, category |-> f.category,
                 jobType |-> f.jobType, remoteOnly |-> f.remoteOnly])

\* What fetch gives fetchJobs: a response, or a rejection (no connection).
Pending == [kind |-> "pending", status |-> 0, data |-> <<>>]
FetchOutcomes ==
    { [kind |-> "response", status |-> 200, data |-> <<"j1", "j2">>],
      [kind |-> "response", status |-> 200, data |-> <<>>],
      [kind |-> "response", status |-> 500, data |-> <<>>],
      [kind |-> "rejected", status |-> 0, data |-> <<>>] }

\* response.ok
FetchOk(outcome) ==
    outcome.kind = "response" /\ outcome.status >= 200 /\ outcome.status <= 299

\* fetchJobs with its catch removed: the failure reaches the caller.
fetchJobs_Mutant(outcome) ==
    IF ~FetchOk(outcome)
    THEN [threw |-> TRUE, message |-> <<"H", "T", "T", "P", " ", "e", "r", "r", "o", "r", "!">>, value |-> <<>>]
    ELSE IF outcome.data = <<>>
         THEN [threw |-> FALSE, message |-> <<>>, value |-> MOCK_JOBS]
         ELSE [threw |-> FALSE, message |-> <<>>, value |-> outcome.data]

\* fetchJobs returning the data list as it came, empty or not.
fetchJobs_NoFallback(outcome) ==
    IF ~FetchOk(outcome)
    THEN [threw |-> FALSE, message |-> <<>>, value |-> MOCK_JOBS]
    ELSE [threw |-> FALSE, message |-> <<>>, value |-> outcome.data]

\* What the promise of fetchJobs settles to: the catch answers every failure
\* with the mock dataset, and so does an empty data list.
fetchJobs(outcome) ==
    IF ~FetchOk(outcome)
    THEN [threw |-> FALSE, message |-> <<>>, value |-> MOCK_JOBS]
    ELSE IF outcome.data = <<>>
         THEN [threw |-> FALSE, message |-> <<>>, value |-> MOCK_JOBS]
         ELSE [threw |-> FALSE, message |-> <<>>, value |-> outcome.data]

NoError == "null"

\* setJobs with a guard against answers that a later call superseded.
setJobs_Mutant(call, issued, prev, jobData) ==
    IF call < issued THEN prev ELSE jobData

\* setJobs(jobData), setFilteredJobs(jobData) in the continuation of the
\* call-th loadJobs when issued calls were made: the state is replaced
\* whichever call the data is of.
setJobs(call, issued, prev, jobData) == jobData

NoTimer == [armed |-> FALSE, elapsed |-> 0, filters |-> DEFAULT_FILTERS]

\* The effect run on mount only: later runs neither clear nor set a timer.
RunEffect_Once(timer, f) ==
    IF timer = NoTimer THEN [armed |-> TRUE, elapsed |-> 0, filters |-> f] ELSE timer

\* The effect with no dependencies: it runs once and is never cleaned up.
RunEffect_Mutant(timer, f) ==
    IF timer.armed THEN timer
    ELSE [armed |-> TRUE, elapsed |-> 0, filters |-> f]

\* The effect on [loadJobs]: the cleanup clears the timer of the previous
\* run, then a new timer is set whose callback calls the new loadJobs.
RunEffect(timer, f) == [armed |-> TRUE, elapsed |-> 0, filters |-> f]

\* The updater without the spread of prev.
SetField_Mutant(prev, filterName, value) ==
    [DEFAULT_FILTERS EXCEPT ![filterName] = value]

\* (prev) => ({...prev, [filterName]: value})
SetField(prev, filterName, value) == [prev EXCEPT ![filterName] = value]

\* The calls of updateFilter the interface makes.
FilterEdits ==
    { <<"searchQuery", <<"d", "e", "s", "i", "g", "n">>>>, <<"category", <<"D", "e", "s", "i", "g", "n">>>>,
      <<"category", <<"A", "l", "l", " ", "C", "a", "t", "e", "g", "o", "r", "i", "e", "s">>>> }

\* Calls of updateFilter on every field of the filters state.
AllFilterEdits ==
    FilterEdits \cup
    { <<"location", <<"L", "a", "g", "o", "s">>>>, <<"experienceLevel", <<"S", "e", "n", "i", "o", "r">>>>,
      <<"jobType", <<"F", "u", "l", "l", "-", "t", "i", "m", "e">>>>, <<"remoteOnly", TRUE>> }

ClInit ==
    /\ clPc = "rendered"
    /\ jobs = <<>>
    /\ filteredJobs = <<>>
    /\ filters = DEFAULT_FILTERS
    /\ filtersRef = "default"
    /\ loading = TRUE
    /\ error = NoError
    /\ debounceTimer = NoTimer
    /\ inFlight = {}
    /\ fetchLog = <<>>
    /\ edits = 0

ClOthers == <<trVars, gwVars, vaVars, apVars>>

\* The effect of the first render.
Mount ==
    /\ clPc = "rendered"
    /\ clPc' = "mounted"
    /\ debounceTimer' = RunEffect(debounceTimer, filters)
    /\ UNCHANGED <<jobs, filteredJobs, filters, filtersRef, loading, error,
                   inFlight, fetchLog, edits>>
    /\ UNCHANGED ClOthers

\* updateFilter(filterName, value): a new filters object, hence a new
\* loadJobs, hence the effect runs again.
updateFilter ==
    /\ clPc = "mounted"
    /\ edits < MaxEdits
    /\ \E e \in FilterEdits :
        /\ filters' = SetField(filters, e[1], e[2])
        /\ debounceTimer' = RunEffect(debounceTimer, filters')
    /\ filtersRef' = "fresh"
    /\ edits' = edits + 1
    /\ UNCHANGED <<clPc, jobs, filteredJobs, loading, error, inFlight, fetchLog>>
    /\ UNCHANGED ClOthers

\* updateFilter(filterName, value) for any field of the filters state.
updateAnyFilter ==
    /\ clPc = "mounted"
    /\ edits < MaxEdits
    /\ \E e \in AllFilterEdits :
        /\ filters' = SetField(filters, e[1], e[2])
        /\ debounceTimer' = RunEffect(debounceTimer, filters')
    /\ filtersRef' = "fresh"
    /\ edits' = edits + 1
    /\ UNCHANGED <<clPc, jobs, filteredJobs, loading, error, inFlight, fetchLog>>
    /\ UNCHANGED ClOthers

\* resetFilters(): setFilters(DEFAULT_FILTERS) changes nothing when filters
\* is that object already.
resetFilters ==
    /\ clPc = "mounted"
    /\ edits < MaxEdits
    /\ IF filtersRef = "default"
       THEN UNCHANGED <<filters, filtersRef, debounceTimer, edits>>
       ELSE /\ filters' = DEFAULT_FILTERS
            /\ filtersRef' = "default"
            /\ debounceTimer' = RunEffect(debounceTimer, filters')
            /\ edits' = edits + 1
    /\ UNCHANGED <<clPc, jobs, filteredJobs, loading, error, inFlight, fetchLog>>
    /\ UNCHANGED ClOthers

\* Time advances while the timer waits.
TimePasses ==
    /\ debounceTimer.armed
    /\ debounceTimer.elapsed < DebounceMs
    /\ \E d \in TimeSteps :
        debounceTimer' =
            [debounceTimer EXCEPT !.elapsed =
                IF @ + d > DebounceMs THEN DebounceMs ELSE @ + d]
    /\ UNCHANGED <<clPc, jobs, filteredJobs, filters, filtersRef, loading, error,
                   inFlight, fetchLog, edits>>
    /\ UNCHANGED ClOthers

\* The timer's callback: loadJobs up to its await, fetchJobs up to its fetch.
TimerFires ==
    /\ debounceTimer.armed
    /\ debounceTimer.elapsed >= DebounceMs
    /\ debounceTimer' = [debounceTimer EXCEPT !.armed = FALSE]
    /\ loading' = TRUE
    /\ error' = NoError
    /\ fetchLog' = Append(fetchLog, [params |-> RequestFor(debounceTimer.filters),
                                     edit |-> edits, outcome |-> Pending])
    /\ inFlight' = inFlight \cup {Len(fetchLog) + 1}
    /\ UNCHANGED <<clPc, jobs, filteredJobs, filters, filtersRef, edits>>
    /\ UNCHANGED ClOthers

\* fetch settles: the rest of fetchJobs, then the rest of loadJobs.
FetchCompletes ==
    /\ \E call \in inFlight, outcome \in FetchOutcomes :
        LET jobData == fetchJobs(outcome) IN
        /\ inFlight' = inFlight \ {call}
        /\ fetchLog' = [fetchLog EXCEPT ![call].outcome = outcome]
        /\ IF jobData.threw
           THEN /\ error' = OrElseStr(jobData.message, FETCH_FAILED)
                /\ UNCHANGED <<jobs, filteredJobs>>
           ELSE /\ jobs' = setJobs(call, Len(fetchLog), jobs, jobData.value)
                /\ filteredJobs' =
                       setJobs(call, Len(fetchLog), filteredJobs, jobData.value)
                /\ UNCHANGED error
    /\ loading' = FALSE
    /\ UNCHANGED <<clPc, filters, filtersRef, debounceTimer, edits>>
    /\ UNCHANGED ClOthers

(***************************************************************************)
(* Properties of the client.                                               *)
(***************************************************************************)
\* A step that issues a request.
IssuesFetch == fetchLog' # fetchLog /\ Len(fetchLog') > Len(fetchLog)

\* A step that replaces the filters state.
MutatesFilters == edits' # edits

\* C2: a step that replaces the filters state issues no request and starts
\* the quiet period anew; a request is issued only by a step taken when the
\* quiet period since the last replacement has elapsed, it is one request,
\* its parameters are those of the filters state as the last replacement left
\* it, and the same quiet period issues no second one; no two requests are
\* issued for one and the same replacement; and every filters state that is
\* not replaced has its request issued.
C2_OneFetchPerSettledFilters ==
    /\ [][/\ MutatesFilters =>
               /\ fetchLog' = fetchLog
               /\ debounceTimer'.armed
               /\ debounceTimer'.elapsed = 0
          /\ IssuesFetch =>
               /\ debounceTimer.armed
               /\ debounceTimer.elapsed >= DebounceMs
               /\ ~debounceTimer'.armed
               /\ filters' = filters
               /\ Len(fetchLog') = Len(fetchLog) + 1
               /\ SubSeq(fetchLog', 1, Len(fetchLog)) = fetchLog
               /\ fetchLog'[Len(fetchLog')].params = RequestFor(filters)
               /\ fetchLog'[Len(fetchLog')].edit = edits
               /\ \A i \in 1..Len(fetchLog) : fetchLog[i].edit < edits]_vars
    /\ \A e \in 0..MaxEdits :
          (clPc = "mounted" /\ edits = e)
              ~> (edits > e \/ \E i \in 1..Len(fetchLog) : fetchLog[i].edit = e)

\* Two replacements of the filters state fell into one quiet period, and
\* the one request issued since carries the parameters of the second.
C2_Witness ==
    /\ edits = 2
    /\ Len(fetchLog) = 1
    /\ fetchLog[1].edit = 2
    /\ fetchLog[1].params = RequestFor(filters)
    /\ filters.searchQuery = <<"d", "e", "s", "i", "g", "n">>
    /\ filters.category = <<"D", "e", "s", "i", "g", "n">>
    /\ ~debounceTimer.armed

\* The call whose fetch settles in this step.
Settles(call) == call \in inFlight /\ call \notin inFlight'

\* The fetch gave a successful response.
Succeeded(outcome) == outcome.kind = "response" /\ FetchOk(outcome)

\* C3 as amended: when a fetch completes successfully with a non-empty list
\* the state becomes ready (not loading, no error) with the job list replaced
\* by the fetched list; when it fails, or succeeds with an empty list, the
\* state becomes ready with the job list replaced by the mock dataset, and
\* no error message is set.
C3_SettledFetchIsReady ==
    [][\A call \in 1..(MaxEdits + 1) : Settles(call) =>
          LET outcome == fetchLog'[call].outcome IN
          /\ loading' = FALSE
          /\ error' = NoError
          /\ filteredJobs' = jobs'
          /\ (Succeeded(outcome) /\ outcome.data # <<>>) => jobs' = outcome.data
          /\ (~Succeeded(outcome) \/ outcome.data = <<>>) => jobs' = MOCK_JOBS]_vars

\* C3 as stated: success makes the state ready with the fetched list; failure
\* makes it errored, with an empty job list and a non-null error.
C3_AsStated ==
    [][\A call \in 1..(MaxEdits + 1) : Settles(call) =>
          LET outcome == fetchLog'[call].outcome IN
          /\ Succeeded(outcome) =>
                /\ loading' = FALSE
                /\ error' = NoError
                /\ jobs' = outcome.data
          /\ ~Succeeded(outcome) =>
                /\ loading' = FALSE
                /\ error' # NoError
                /\ jobs' = <<>>]_vars

\* A fetch succeeded with a list, a later one failed, and the state is ready
\* with the mock dataset.
C3_Witness ==
    /\ Len(fetchLog) = 2
    /\ inFlight = {}
    /\ Succeeded(fetchLog[1].outcome) /\ fetchLog[1].outcome.data # <<>>
    /\ fetchLog[2].outcome.kind = "rejected"
    /\ jobs = MOCK_JOBS
    /\ ~loading
    /\ error = NoError

(***************************************************************************)
(* Further properties of the client's fetch helper and of the Classifier.  *)
(***************************************************************************)
\* The request to the gateway threw or returned a status that is not OK.
FetchFailed(outcome) == outcome.kind = "rejected" \/ ~FetchOk(outcome)

\* C11: whenever the request to the gateway throws or returns a non-OK
\* status, the fetch helper's promise resolves with the mock dataset: the
\* step that settles such a call puts the mock dataset into jobs and
\* filteredJobs and sets no error, and the error state is null at all times.
C11_FetchJobsNeverRejects ==
    /\ [](error = NoError)
    /\ [][\A call \in 1..(MaxEdits + 1) :
            (Settles(call) /\ FetchFailed(fetchLog'[call].outcome)) =>
                /\ ~fetchJobs(fetchLog'[call].outcome).threw
                /\ fetchJobs(fetchLog'[call].outcome).value = MOCK_JOBS
                /\ jobs' = MOCK_JOBS
                /\ filteredJobs' = MOCK_JOBS
                /\ error' = NoError]_vars

\* The first request was answered with status 500 and the job list is the
\* mock dataset, with no error.
C11_Witness ==
    /\ Len(fetchLog) = 1
    /\ inFlight = {}
    /\ fetchLog[1].outcome.kind = "response"
    /\ fetchLog[1].outcome.status = 500
    /\ jobs = MOCK_JOBS
    /\ error = NoError

\* The keyword groups of determineCategory in the order they are tested.
KeywordGroups ==
    << [category |-> SoftwareDevelopment,
        keywords |-> {<<"d", "e", "v">>, <<"e", "n", "g", "i", "n", "e", "e", "r">>, <<"p", "r", "o", "g", "r", "a", "m", "m", "e", "r">>, <<"f", "r", "o", "n", "t", "e", "n", "d">>,
                      <<"b", "a", "c", "k", "e", "n", "d">>, <<"f", "u", "l", "l", "s", "t", "a", "c", "k">>, <<"f", "u", "l", "l", " ", "s", "t", "a", "c", "k">>}],
       [category |-> DataScience,
        keywords |-> {<<"d", "a", "t", "a">>, <<"a", "n", "a", "l", "y", "s", "t">>, <<"s", "c", "i", "e", "n", "t", "i", "s", "t">>, <<"m", "l">>,
                      <<"m", "a", "c", "h", "i", "n", "e", " ", "l", "e", "a", "r", "n", "i", "n", "g">>}],
       [category |-> Design,
        keywords |-> {<<"d", "e", "s", "i", "g", "n">>, <<"u", "x">>, <<"u", "i">>, <<"g", "r", "a", "p", "h", "i", "c">>}],
       [category |-> Marketing, keywords |-> {<<"m", "a", "r", "k", "e", "t">>, <<"s", "e", "o">>, <<"g", "r", "o", "w", "t", "h">>}],
       [category |-> ProductManagement, keywords |-> {<<"p", "r", "o", "d", "u", "c", "t">>, <<"p", "m">>}],
       [category |-> Sales, keywords |-> {<<"s", "a", "l", "e", "s">>, <<"b", "u", "s", "i", "n", "e", "s", "s", " ", "d", "e", "v", "e", "l", "o", "p", "m", "e", "n", "t">>}],
       [category |-> CustomerSupport,
        keywords |-> {<<"s", "u", "p", "p", "o", "r", "t">>, <<"c", "u", "s", "t", "o", "m", "e", "r">>, <<"s", "u", "c", "c", "e", "s", "s">>}],
       [category |-> HumanResources,
        keywords |-> {<<"h", "r">>, <<"h", "u", "m", "a", "n">>, <<"r", "e", "c", "r", "u", "i", "t", "e", "r">>, <<"t", "a", "l", "e", "n", "t">>}],
       [category |-> Finance,
        keywords |-> {<<"f", "i", "n", "a", "n", "c", "e">>, <<"a", "c", "c", "o", "u", "n", "t", "i", "n", "g">>, <<"a", "c", "c", "o", "u", "n", "t", "a", "n", "t">>}],
       [category |-> DevOps, keywords |-> {<<"d", "e", "v", "o", "p", "s">>, <<"s", "r", "e">>, <<"i", "n", "f", "r", "a", "s", "t", "r", "u", "c", "t", "u", "r", "e">>}],
       [category |-> QualityAssurance, keywords |-> {<<"q", "a">>, <<"t", "e", "s", "t">>, <<"q", "u", "a", "l", "i", "t", "y">>}],
       [category |-> Security, keywords |-> {<<"s", "e", "c", "u", "r", "i", "t", "y">>, <<"c", "y", "b", "e", "r">>}] >>

\* The lower-cased text the Classifier searches for a record's tags.
SearchTextOf(record) ==
    LET tagsOrTitle == OrElse(record.tags, Arr(<<>>))
    IN  IF tagsOrTitle.t = "array"
        THEN ToLowerCase(Join(tagsOrTitle.a, <<" ">>))
        ELSE ToLowerCase(tagsOrTitle.s)

\* The groups having a keyword contained in the text.
MatchingGroups(text) ==
    {g \in 1..Len(KeywordGroups) : IncludesAny(text, KeywordGroups[g].keywords)}

\* C12: the category of a transformed record is that of the first keyword
\* group, in the order development, data, design, marketing, product, sales,
\* support, HR, finance, devops, QA, security, having a keyword contained in
\* the lower-cased tags joined by spaces, "Software Development" when no
\* group has one; an input with a development keyword is classified
\* "Software Development" whatever other keywords it holds.
C12_FirstMatchingGroup ==
    trOut # <<>> =>
        LET text == SearchTextOf(trRecord)
            matching == MatchingGroups(text)
        IN  /\ matching = {} => trOut[1].category = SoftwareDevelopment
            /\ matching # {} =>
                 \E g \in matching :
                    /\ \A h \in matching : g <= h
                    /\ trOut[1].category = KeywordGroups[g].category
            /\ 1 \in matching => trOut[1].category = SoftwareDevelopment

\* Tags naming the security group and then the development group were
\* classified "Software Development".
C12_Witness ==
    /\ trOut # <<>>
    /\ trRecord.tags = Arr(<<<<"s", "e", "c", "u", "r", "i", "t", "y">>, <<"D", "e", "v">>>>)
    /\ MatchingGroups(SearchTextOf(trRecord)) = {1, 12}
    /\ trOut[1].category = SoftwareDevelopment

SeniorIndicators == {<<"s", "e", "n", "i", "o", "r">>, <<"s", "r", ".">>, <<"p", "r", "i", "n", "c", "i", "p", "a", "l">>}
LeadIndicators == {<<"l", "e", "a", "d">>, <<"s", "t", "a", "f", "f">>, <<"c", "h", "i", "e", "f">>}
EntryIndicators == {<<"j", "u", "n", "i", "o", "r">>, <<"j", "r", ".">>, <<"e", "n", "t", "r", "y">>, <<"i", "n", "t", "e", "r", "n">>}

\* The lower-cased title the Classifier searches for a record's position.
LowerTitleOf(record) == ToLowerCase(OrElse(record.position, Str(<<>>)).s)

\* C13: the experience level of a transformed record is Senior when the
\* lower-cased title contains a Senior indicator, whatever else it contains;
\* Lead when it contains a Lead indicator and no Senior indicator;
\* Entry-Level when it contains an Entry indicator and neither of the
\* former; Mid-Level for every other title.
C13_LevelByFirstIndicator ==
    trOut # <<>> =>
        LET t == LowerTitleOf(trRecord)
            senior == IncludesAny(t, SeniorIndicators)
            lead == IncludesAny(t, LeadIndicators)
            entry == IncludesAny(t, EntryIndicators)
        IN  /\ senior => trOut[1].experienceLevel = Senior
            /\ (lead /\ ~senior) => trOut[1].experienceLevel = Lead
            /\ (entry /\ ~lead /\ ~senior) => trOut[1].experienceLevel = EntryLevel
            /\ (~entry /\ ~lead /\ ~senior) => trOut[1].experienceLevel = MidLevel

\* A title in mixed case with a Senior and a Lead indicator was classified
\* Senior.
C13_Witness ==
    /\ trOut # <<>>
    /\ trRecord.position = Str(<<"S", "e", "n", "i", "o", "r", " ", "L", "e", "a", "d", " ", "E", "n", "g", "i", "n", "e", "e", "r">>)
    /\ IncludesAny(LowerTitleOf(trRecord), LeadIndicators)
    /\ trOut[1].experienceLevel = Senior

(***************************************************************************)
(* Properties of extractRequirements and of the salary.                    *)
(***************************************************************************)
\* The description handed to extractRequirements for a record.
DescriptionOf(record) == OrElse(record.description, Str(<<>>)).s

\* s[a..b] is a fragment of s: a maximal stretch, possibly empty, free of
\* sentence ends. An empty fragment at a is written b = a - 1.
IsFragment(s, a, b) ==
    /\ a = 1 \/ s[a - 1] \in SentenceEnds
    /\ b = Len(s) \/ s[b + 1] \in SentenceEnds
    /\ \A i \in a..b : s[i] \notin SentenceEnds

\* The starts of the fragments of trimmed length above 10, and their ends.
QualifyingStarts(s) ==
    {a \in 1..Len(s) : \E b \in a..Len(s) :
        IsFragment(s, a, b) /\ Len(Trim(SubSeq(s, a, b))) > 10}

FragmentAt(s, a) ==
    SubSeq(s, a, CHOOSE b \in a..Len(s) : IsFragment(s, a, b))

\* C14: the requirements of a transformed record are the first three, in
\* the order of the text, of the trimmed fragments between runs of '.', '!'
\* and '?' whose trimmed length is above 10; when there is none (the empty
\* description included) they are exactly the three fallback strings.
C14_RequirementsOfDescription ==
    trOut # <<>> =>
        LET s == DescriptionOf(trRecord)
            starts == QualifyingStarts(s)
            reqs == trOut[1].requirements
        IN  /\ starts = {} =>
                reqs = <<<<"E", "x", "p", "e", "r", "i", "e", "n", "c", "e", " ", "i", "n", " ", "r", "e", "l", "e", "v", "a", "n", "t", " ", "f", "i", "e", "l", "d">>,
                         <<"S", "t", "r", "o", "n", "g", " ", "c", "o", "m", "m", "u", "n", "i", "c", "a", "t", "i", "o", "n", " ", "s", "k", "i", "l", "l", "s">>,
                         <<"A", "b", "i", "l", "i", "t", "y", " ", "t", "o", " ", "w", "o", "r", "k", " ", "i", "n", " ", "a", " ", "t", "e", "a", "m", " ", "e", "n", "v", "i", "r", "o", "n", "m", "e", "n", "t">>>>
            /\ starts # {} =>
                /\ Len(reqs) = (IF Cardinality(starts) < 3 THEN Cardinality(starts) ELSE 3)
                /\ \A k \in 1..Len(reqs) :
                     \E a \in starts :
                        /\ Cardinality({x \in starts : x < a}) = k - 1
                        /\ reqs[k] = Trim(FragmentAt(s, a))

\* A description of four long sentences gave the first three, trimmed.
C14_Witness ==
    /\ trOut # <<>>
    /\ Cardinality(QualifyingStarts(DescriptionOf(trRecord))) = 4
    /\ trOut[1].requirements =
         <<<<"V", "a", "l", "i", "d", " ", "s", "e", "n", "t", "e", "n", "c", "e", " ", "h", "e", "r", "e">>, <<"V", "a", "l", "i", "d", " ", "s", "e", "n", "t", "e", "n", "c", "e", " ", "h", "e", "r", "e">>, <<"V", "a", "l", "i", "d", " ", "s", "e", "n", "t", "e", "n", "c", "e", " ", "h", "e", "r", "e">>>>

\* C15: every transformed record has at least one and at most three
\* requirements, whatever its description (absent, empty or any text).
C15_RequirementsBetweenOneAndThree ==
    trOut # <<>> =>
        /\ Len(trOut[1].requirements) >= 1
        /\ Len(trOut[1].requirements) <= 3

\* A record without description has the three fallback requirements.
C15_Witness ==
    /\ trOut # <<>>
    /\ trRecord.description = Undefined
    /\ trRecord.tags = Undefined
    /\ Len(trOut[1].requirements) = 3

\* C17: a transformed record has a salary only when the provider gave both
\* salary_min and salary_max; when either is missing the salary is undefined;
\* a salary has the provider's min and max and the currency USD.
C17_SalaryNeedsBothBounds ==
    trOut # <<>> =>
        LET salary == trOut[1].salary IN
        /\ (trRecord.salary_min = Undefined \/ trRecord.salary_max = Undefined)
               => ~salary.defined
        /\ salary.defined =>
               /\ trRecord.salary_min # Undefined
               /\ trRecord.salary_max # Undefined
               /\ salary.min = trRecord.salary_min
               /\ salary.max = trRecord.salary_max
               /\ salary.currency = <<"U", "S", "D">>

\* A record with only salary_max has no salary.
C17_Witness ==
    /\ trOut # <<>>
    /\ trRecord.salary_min = Undefined
    /\ trRecord.salary_max = Num(90000)
    /\ ~trOut[1].salary.defined

(***************************************************************************)
(* Further properties of the client.                                       *)
(***************************************************************************)
\* What the call-th fetchJobs resolved to.
ResultOf(call) == fetchJobs(fetchLog[call].outcome).value

\* C21: no step that replaces the filters or issues a request takes a call
\* out of flight, and a fetch that settles replaces the job list by its own
\* result, also when a call issued after it has settled before.
C21_SupersededFetchOverwrites ==
    [][/\ (MutatesFilters \/ IssuesFetch) => inFlight \subseteq inFlight'
       /\ \A call \in 1..(MaxEdits + 1) : Settles(call) =>
             /\ jobs' = fetchJobs(fetchLog'[call].outcome).value
             /\ filteredJobs' = jobs'
             /\ inFlight' = inFlight \ {call}
             /\ debounceTimer' = debounceTimer]_vars

\* Nothing is in flight, no timer is set, the second request was the one of
\* the current filters and the job list is the result of the first one, which
\* was made for other filters and settled last.
C21_Witness ==
    /\ inFlight = {}
    /\ ~debounceTimer.armed
    /\ Len(fetchLog) = 2
    /\ fetchLog[2].params = RequestFor(filters)
    /\ fetchLog[1].params # RequestFor(filters)
    /\ jobs = ResultOf(1)
    /\ jobs # ResultOf(2)
    /\ filteredJobs = jobs
    /\ ~loading

\* C22: after every replacement of the filters state there comes a state in
\* which loading is true and a request issued since the replacement is in
\* flight (for a replacement overtaken by the next, the request of that one);
\* and whenever every issued fetch has settled, loading is false and the two
\* job lists agree.
C22_MutationReentersLoading ==
    /\ \A e \in 1..MaxEdits :
          (edits = e /\ \A i \in 1..Len(fetchLog) : fetchLog[i].edit < e)
              ~> (loading /\ \E i \in inFlight : fetchLog[i].edit >= e)
    /\ []((fetchLog # <<>> /\ inFlight = {}) =>
              (~loading /\ error \in {NoError, FETCH_FAILED} /\ filteredJobs = jobs))

\* The filters were replaced after the first fetch had settled; the request
\* made for the replacement has settled too and loading is false again.
C22_Witness ==
    /\ edits = 1
    /\ Len(fetchLog) = 2
    /\ fetchLog[1].edit = 0
    /\ fetchLog[2].edit = 1
    /\ fetchLog[2].params = RequestFor(filters)
    /\ inFlight = {}
    /\ ~debounceTimer.armed
    /\ ~loading
    /\ jobs = ResultOf(2)

\* The gateway answered 200 with an empty data list.
EmptyResult(outcome) == Succeeded(outcome) /\ outcome.data = <<>>

\* C25: when the fetch of a call settles with a successful response whose
\* data list is empty, the job list and the filtered list become the mock
\* dataset, which is not empty.
C25_EmptyResultGivesMockJobs ==
    [][\A call \in 1..(MaxEdits + 1) :
          (Settles(call) /\ EmptyResult(fetchLog'[call].outcome)) =>
              /\ jobs' = MOCK_JOBS
              /\ filteredJobs' = MOCK_JOBS
              /\ jobs' # fetchLog'[call].outcome.data
              /\ error' = NoError]_vars

\* The request made for the category Design was answered with an empty list
\* after an earlier request had given jobs: the list is the mock dataset.
C25_Witness ==
    /\ Len(fetchLog) = 2
    /\ inFlight = {}
    /\ fetchLog[1].outcome.data # <<>>
    /\ EmptyResult(fetchLog[2].outcome)
    /\ <<"category", <<"D", "e", "s", "i", "g", "n">>>> \in {fetchLog[2].params[i] : i \in 1..Len(fetchLog[2].params)}
    /\ jobs = MOCK_JOBS
    /\ filteredJobs = MOCK_JOBS

\* C26: loading is true whenever a fetch started by loadJobs has not
\* settled.
C26_LoadingWhileInFlight == inFlight # {} => loading

FilterNames == DOMAIN DEFAULT_FILTERS

\* C24: the filters state is the defaults until it is first replaced; a step
\* that replaces it leaves jobs, filteredJobs, loading and error as they
\* were, and it either changes one field and leaves the other five as they
\* were (updateFilter) or makes every field its default (resetFilters).
C24_FilterLifecycle ==
    /\ [](edits = 0 => (filters = DEFAULT_FILTERS /\ filtersRef = "default"))
    /\ [][MutatesFilters =>
            /\ jobs' = jobs
            /\ filteredJobs' = filteredJobs
            /\ loading' = loading
            /\ error' = error
            /\ \/ /\ filtersRef' = "fresh"
                  /\ \E name \in FilterNames :
                        \A other \in FilterNames \ {name} :
                            filters'[other] = filters[other]
               \/ /\ filtersRef' = "default"
                  /\ filtersRef = "fresh"
                  /\ \A name \in FilterNames : filters'[name] = DEFAULT_FILTERS[name]]_vars

\* After a fetch gave jobs, remoteOnly and then location were set: both
\* hold their values, the other four fields their defaults, and the job list
\* is the one the fetch gave.
C24_Witness ==
    /\ edits = 2
    /\ filters.remoteOnly = TRUE
    /\ filters.location = <<"L", "a", "g", "o", "s">>
    /\ \A name \in FilterNames \ {"remoteOnly", "location"} :
          filters[name] = DEFAULT_FILTERS[name]
    /\ Len(fetchLog) = 1
    /\ inFlight = {}
    /\ jobs = ResultOf(1)
    /\ ~loading

(***************************************************************************)
(* Further properties of the Classifier.                                   *)
(***************************************************************************)
\* The groups determineCategory tests before the devops group.
EarlierThanDevOps ==
    {g \in 1..Len(KeywordGroups) :
        \A d \in 1..Len(KeywordGroups) : KeywordGroups[d].category = DevOps => g < d}

\* C30: a record is classified "DevOps" only when its text contains 'sre' or
\* 'infrastructure' and no keyword of the nine groups tested earlier; a
\* record whose text contains 'devops' is classified "Software Development".
C30_DevOpsOnlyBySreOrInfrastructure ==
    trOut # <<>> =>
        LET text == SearchTextOf(trRecord) IN
        /\ trOut[1].category = DevOps =>
              /\ Includes(text, <<"s", "r", "e">>) \/ Includes(text, <<"i", "n", "f", "r", "a", "s", "t", "r", "u", "c", "t", "u", "r", "e">>)
              /\ ~Includes(text, <<"d", "e", "v", "o", "p", "s">>)
              /\ Cardinality(EarlierThanDevOps) = 9
              /\ \A g \in EarlierThanDevOps : ~IncludesAny(text, KeywordGroups[g].keywords)
        /\ Includes(text, <<"d", "e", "v", "o", "p", "s">>) => trOut[1].category = SoftwareDevelopment

\* The tags DevOps and Infrastructure gave "Software Development".
C30_Witness ==
    /\ trOut # <<>>
    /\ trRecord.tags = Arr(<<<<"D", "e", "v", "O", "p", "s">>, <<"I", "n", "f", "r", "a", "s", "t", "r", "u", "c", "t", "u", "r", "e">>>>)
    /\ trOut[1].category = SoftwareDevelopment

(***************************************************************************)
(* Specifications.                                                         *)
(***************************************************************************)
TrIdle == trRecord = Null /\ trOut = <<>>
GwIdle == gwPc = "off" /\ gwParams = NoParams /\ gwUpstream = NoOutcome
            /\ gwResponse = NoResponse

VaIdle == vaInput = NoData /\ vaOut = <<>>

ApIdle ==
    /\ applications = <<>>
    /\ apPc = [h \in Handlers |-> "off"]
    /\ apBody = [h \in Handlers |-> BodyNull]
    /\ apLocal = [h \in Handlers |-> NoApplication]
    /\ apResp = [h \in Handlers |-> NoPostResponse]
    /\ apClock = FirstInstant
    /\ apAdmin = NoAdminResponse

ClIdle ==
    /\ clPc = "off"
    /\ jobs = <<>>
    /\ filteredJobs = <<>>
    /\ filters = DEFAULT_FILTERS
    /\ filtersRef = "default"
    /\ loading = TRUE
    /\ error = NoError
    /\ debounceTimer = NoTimer
    /\ inFlight = {}
    /\ fetchLog = <<>>
    /\ edits = 0

\* The Transformer applied to one external record.
TransformerInit == TrInit /\ GwIdle /\ VaIdle /\ ApIdle /\ ClIdle
TransformerNext == Transform
SpecTransformer == TransformerInit /\ [][TransformerNext]_vars

\* The listings route serving requests one after the other.
GatewayInit == GwInit /\ TrIdle /\ VaIdle /\ ApIdle /\ ClIdle
GatewayNext == GETStart \/ GETComplete \/ GETReturn
SpecGateway == GatewayInit /\ [][GatewayNext]_vars

\* The Validator applied to one submission.
ValidatorInit == VaInit /\ TrIdle /\ GwIdle /\ ApIdle /\ ClIdle
ValidatorNext == Validate
SpecValidator == ValidatorInit /\ [][ValidatorNext]_vars

\* The application route serving concurrent submissions and queries.
ApplyInit == ApInit /\ TrIdle /\ GwIdle /\ VaIdle /\ ClIdle
ApplyNext ==
    \/ \E h \in Handlers : POSTStart(h)
    \/ \E h \in Handlers : POSTParsed(h)
    \/ \E h \in Handlers : POSTRespond(h)
    \/ \E h \in Handlers : POSTReturn(h)
    \/ GETApplications
    \/ GETApplicationsReturn
    \/ Tick
SpecApply == ApplyInit /\ [][ApplyNext]_vars

\* GET /api/apply asked after earlier submissions filled the store.
AdminInit == AdInit /\ TrIdle /\ GwIdle /\ VaIdle /\ ClIdle
AdminNext ==
    \/ GETApplications
    \/ GETApplicationsReturn
SpecAdmin == AdminInit /\ [][AdminNext]_vars

\* The JobProvider from its first render on. Timers run and time advances;
\* nothing bounds the time a fetch takes.
ClientInit == ClInit /\ TrIdle /\ GwIdle /\ VaIdle /\ ApIdle
ClientNext ==
    \/ Mount
    \/ updateFilter
    \/ resetFilters
    \/ TimePasses
    \/ TimerFires
    \/ FetchCompletes
SpecClient ==
    /\ ClientInit
    /\ [][ClientNext]_vars
    /\ WF_vars(Mount)
    /\ WF_vars(TimePasses)
    /\ WF_vars(TimerFires)

\* The JobProvider with updateFilter called on every field.
FiltersNext ==
    \/ Mount
    \/ updateAnyFilter
    \/ resetFilters
    \/ TimePasses
    \/ TimerFires
    \/ FetchCompletes
SpecFilters == ClientInit /\ [][FiltersNext]_vars

====
